---------------------------- MODULE Spec2Model ----------------------------
(***************************************************************************)
(* A state-machine model of lan-meeting (src-tauri/src):                   *)
(*   - the simple-streaming sharer (simple_streaming/mod.rs): the globals  *)
(*     SIMPLE_SHARER_ACTIVE, SIMPLE_STOP_TX, SHARER_STATE, start_sharing,  *)
(*     stop_sharing and the per-viewer task handle_viewer_request;         *)
(*   - the viewer's receive side of a media stream (lib.rs and             *)
(*     simple_streaming/mod.rs);                                           *)
(*   - the connection handler, the connection registry and the device      *)
(*     registry (lib.rs, network/quic.rs, network/discovery.rs,            *)
(*     commands/mod.rs).                                                   *)
(* Each part has its own specification (SpecSharer, SpecViewer, SpecNet);  *)
(* the variables of the other parts stay at their initial values.          *)
(***************************************************************************)
EXTENDS Integers, Sequences, FiniteSets, TLC

(***************************************************************************)
(* Bounds of the model.                                                    *)
(***************************************************************************)
\* sharing sessions start_sharing may create in one run
MaxSessions == 2
\* viewer requests (handle_viewer_request tasks) in one run
MaxTasks == 2
\* StreamFrame payloads sent in one run
MaxFrames == 1
\* ResolutionRequest payloads the viewers send in one run
MaxReqs == 2
\* stop_sharing calls in one run
MaxStops == 1
\* StreamFrame payloads that arrive on the viewer's media stream
MaxWireFrames == 3
\* StreamStart payloads that arrive on the viewer's media stream
MaxWireStarts == 2
\* connections accepted or opened in one run
MaxConns == 2
\* control messages the peers send in one run
MaxMsgs == 1
\* send_to_peer and broadcast_message calls in one run
MaxOps == 1
\* connections of the node whose registries are followed
MaxQConns == 2
\* the latest value of now_ms()
MaxNowMs == 1
\* tasks that call start_service, the calls they make in all, and the
\* stop_service calls
MaxStarters == 3
MaxStartCalls == 4
MaxSvcStops == 1
\* render_frame calls on one window handle, and window events the system
\* delivers
MaxRenderCalls == 3
MaxWinEvents == 1
\* chunks of the offered file
NumChunks == 2

(***************************************************************************)
(* Program constants.                                                      *)
(***************************************************************************)
OPENH264_MAX_WIDTH == 3840
OPENH264_MAX_HEIGHT == 2160
SIMPLE_TARGET_WIDTH == 1280
SIMPLE_TARGET_HEIGHT == 720

\* RESOLUTION_OPTIONS: the target boxes the viewer toolbar can ask for
RESOLUTION_OPTIONS ==
    { <<1280, 720>>, <<1920, 1080>>, <<2560, 1440>>, <<3840, 2160>> }

\* The displays a sharer may capture (width, height).  For these sources and
\* the boxes of RESOLUTION_OPTIONS the f64 arithmetic of new_with_target is
\* exact, so the integer arithmetic below computes the same dimensions.
Displays == { <<1920, 1080>>, <<3456, 2160>> }

\* the boxes the modelled viewers ask for
ReqOptions == { <<1280, 720>>, <<1920, 1080>> }

Min(a, b) == IF a <= b THEN a ELSE b
Max(a, b) == IF a >= b THEN a ELSE b
\* x & !1
Even(x) == x - (x % 2)

(***************************************************************************)
(* FrameScaler::new_with_target: fit the source aspect ratio inside the    *)
(* target box, never upscale, clamp to the encoder maximum, round both     *)
(* dimensions down to even.  scale = min(max_w/src_w, max_h/src_h, 1).     *)
(***************************************************************************)
new_with_target(src, target) ==
    LET max_w == Min(Min(target[1], src[1]), OPENH264_MAX_WIDTH)
        max_h == Min(Min(target[2], src[2]), OPENH264_MAX_HEIGHT)
        \* scale_w <= scale_h  <=>  max_w * src_h <= max_h * src_w
        widthLimited == max_w * src[2] <= max_h * src[1]
        w == IF widthLimited THEN max_w ELSE (src[1] * max_h) \div src[2]
        h == IF widthLimited THEN (src[2] * max_w) \div src[1] ELSE max_h
    IN  <<Even(w), Even(h)>>

VARIABLES
    \* ---- sharer globals (simple_streaming/mod.rs) ----
    active,        \* SIMPLE_SHARER_ACTIVE
    stopTx,        \* SIMPLE_STOP_TX: session whose Sender is stored, 0 = None
    stopChan,      \* per session: messages queued in its stop channel (capacity 1)
    sharerState,   \* SHARER_STATE: session whose SharerState is stored, 0 = None
    storePending,  \* sessions whose "simple-sharer-state" thread has not run yet
    nSess,         \* sessions created so far
    display,       \* the captured display's (width, height)
    capStopped,    \* per session: capture.stop() was called
    cmds,          \* history: the start_sharing / stop_sharing calls that took effect
    \* ---- per-viewer tasks (handle_viewer_request) ----
    pc,            \* per task: position in handle_viewer_request
    held,          \* per task: session whose SharerState the task took, 0 = none
    scaler,        \* per task: state.pre_scaler dst dimensions
    enc,           \* per task: dimensions the current encoder was initialised with
    sequence,      \* per task: the frame counter of the loop
    req_data,      \* per task: the ResolutionRequest read in this turn of the loop, NoDims = none
    outcome,       \* per task: how the request was answered
    \* ---- the media stream of each task ----
    log,           \* payloads handed to send_framed, in order, with the result
    finished,      \* stream.finish() was called
    strm,          \* "none" | "open" | "stalled" (the viewer has stopped reading and the
                   \* stream's send window is used up) | "gone" (viewer closed it or
                   \* connection lost)
    upstream,      \* ResolutionRequests sent by the viewer, not yet read
    \* ---- the viewer's end of each media stream ----
    nReqs,         \* ResolutionRequests the viewers have sent
    outstanding,   \* requests sent since the last StreamStart was received
    lastStartRecv, \* the last StreamStart received and the requests it followed
    \* ---- the viewer's handler of one media stream ----
    vpath,         \* "drain": handle_simple_stream, "single": handle_simple_stream_with_first
    wire,          \* payloads buffered on the stream, not yet read
    wstate,        \* what the sharer has put on the stream: "init" | "started" | "stopped"
    nWire,         \* <<StreamStarts, StreamFrames>> put on the stream so far
    wdims,         \* the dimensions of the StreamStart put on the stream last
    vpc,           \* "recv": in the receive loop, "done": handler left the loop
    window,        \* window_handle: "none" | "open" | "closed" (is_open false)
    decoder,       \* dimensions the decoder was initialised with, NoDims = None
    vdecoded,      \* history: frames passed to dec.decode, in order
    vrendered,     \* history: frames handed to render_frame, in order
    batches,       \* history: the batches of frames read, whether each was decoded, and by
                   \* a decoder of which dimensions
    \* ---- service, registries and connections of the local node ----
    running,       \* SERVICE_RUNNING
    serverUp,      \* the accept loop and the mDNS browse thread are running
    registry,      \* CONNECTIONS: key -> connection, 0 = no entry
    nConns,        \* connections created so far
    connPeer,      \* per connection: the remote peer's ip
    alive,         \* per connection: close_reason().is_none()
    handler,       \* per connection: handle_incoming_connection "none" | "running" | "ended"
    devices,       \* DEVICES: the peers with an entry
    dispatchLog,   \* history, per connection: messages handed to handle_message
    stp,           \* the send_to_peer call in progress
    bc,            \* the broadcast_message call in progress
    nOps,          \* send_to_peer and broadcast_message calls so far
    opens,         \* history: open_bi_stream calls of the send operations
    ss,            \* the stop_service call
    atReturn,      \* history: the registries as stop_service returned
    \* ---- one control stream and its MessageCodec (network/protocol.rs, lib.rs) ----
    cmode,         \* who drives the codec: "codec" (feed/decode calls) | "handler" | "off"
    cmsg,          \* the message the peer encoded
    cprefix,       \* the bytes the peer put in front of the encoded message
    nfed,          \* bytes fed to the codec so far
    payloads,      \* byte chunks not yet fed (codec) or framed payloads not yet received (handler)
    buffer,        \* MessageCodec.buffer
    results,       \* history: what each MessageCodec::decode call returned
    rt,            \* <<decode(encode(cmsg))>>, <<>> before the call
    hpc,           \* stream task of handle_incoming_connection: "first" | "decode" | "recv" | "simple" | "closed" | "off"
    replies,       \* history: payloads handle_message sent back on the stream
    first_data,    \* <<>> until the first recv_framed of the stream task returned, then
                   \* <<the payload it returned>>
    \* ---- frame timestamps of one media stream (simple_streaming/mod.rs 301-383) ----
    now,           \* SystemTime::now() of the sharer, in ms since UNIX_EPOCH
    tpc,           \* the frame loop of the stream: "off" | "start" | "loop" | "done"
    sent,          \* payloads sent on the stream, in order
    nrecv,         \* payloads of the stream the viewer has received
    \* ---- the viewer receive loop and its render window (renderer/window.rs) ----
    wpath,         \* "drain": handle_simple_stream, "single": handle_simple_stream_with_first, "off"
    wpc,           \* position in the loop: "poll" | "check" | "recv" | "done" | "off"
    isOpen,        \* RenderWindowHandle.is_open
    events,        \* window events sent to the handle, not yet read
    wbuf,          \* payloads buffered on the stream, not yet received
    arrived,       \* payloads that have arrived on the stream so far
    fwd,           \* ResolutionRequests the loop has sent to the sharer
    seen,          \* history: the loop has read CloseRequested or has seen is_open false
    after,         \* history: payloads received after that
    \* ---- frame scaler (encoder/scaler.rs) ----
    fsKind,        \* which constructor builds the FrameScaler: "new", "target", "off"
    fsInput,       \* the constructor arguments <<src_width, src_height, target_width, target_height>>
    built,         \* <<>> until constructed, then <<the FrameScaler>>
    scaled,        \* <<>> until scale() returned, then <<its result>>
    \* ---- software encoder (encoder/software.rs) ----
    force_keyframe, \* SoftwareEncoder.force_keyframe
    frame_count,   \* SoftwareEncoder.frame_count
    emitted,       \* the EncodedFrames encode() returned, in order
    elast,         \* history: the last call, the flag before it, its result
    \* ---- local address filter (commands/mod.rs) ----
    addr,          \* the IpAddr given to is_real_lan_ip: <<"V4", a, b, c, d>> or <<"V6">>
    verdict,       \* <<>> until is_real_lan_ip returned, then <<its result>>
    \* ---- devices and connections of one node (network/discovery.rs, quic.rs, lib.rs) ----
    DEVICES,       \* DEVICES: device id -> <<>> (no entry) or <<the DiscoveredDevice>>
    CONNECTIONS,   \* CONNECTIONS: key -> connection, 0 = no entry
    qconn,         \* per connection: [ip, closed, handler], handler "none" | "running" | "exited"
    nQ,            \* connections created so far
    nowMs,         \* now_ms()
    last,          \* history: the last operation, its events, both registries before it
    \* ---- start_service and stop_service (commands/mod.rs) ----
    SERVICE_RUNNING, \* the flag behind the RwLock
    QUIC_ENDPOINT, \* the OnceCell: 0 when empty, else the endpoint it holds
    cellSets,      \* history: the values the cell was given, in order
    endpoints,     \* the endpoints created; each holds UDP port DEFAULT_PORT
    acceptLoops,   \* the endpoints whose accept loop was spawned
    discoveries,   \* start_discovery tasks spawned
    sc,            \* per caller: position in start_service, flag read, endpoint, result
    nStarts,       \* start_service calls made
    nSvcStops,     \* stop_service calls made
    \* ---- the render window thread and its handle (renderer/window.rs) ----
    rplat,         \* the build: "macos" (own render loop) or "winit" (event loop)
    rOpen,         \* the is_open flag
    cmdq,          \* the command channel: RenderFrame and Close commands not yet read
    rpc,           \* the render thread: "top", "drain" (macOS loop), "loop" (winit), "exited"
    closeCalled,   \* RenderWindowHandle::close() was called
    rfRes,         \* result of the last render_frame call
    lateEnq,       \* history: a render_frame call made with is_open false enqueued a frame
    nRF,           \* render_frame calls made
    nWinEv,        \* window events delivered
    \* ---- one incoming file transfer of the TransferManager (transfer/mod.rs) ----
    xinfo,         \* the offered file: the byte each of its chunks holds
    xstatus,       \* transfers[file_id].status, "none" before the offer
    xrecv,         \* receivers[file_id]: <<>> or <<[file, received_chunks]>>
    xdone          \* history: what the complete_transfer that set Completed found

sharerVars == <<active, stopTx, stopChan, sharerState, storePending, nSess,
                display, capStopped, cmds>>
taskVars == <<pc, held, scaler, enc, sequence, req_data, outcome>>
streamVars == <<log, finished, strm, upstream>>
viewerEndVars == <<nReqs, outstanding, lastStartRecv>>

viewerVars == <<vpath, wire, wstate, nWire, wdims, vpc, window, decoder, vdecoded,
                vrendered, batches>>

netVars == <<running, serverUp, registry, nConns, connPeer, alive, handler,
             devices, dispatchLog, stp, bc, nOps, opens, ss, atReturn>>

codecVars == <<cmode, cmsg, cprefix, nfed, payloads, buffer, results, rt, hpc,
               replies, first_data>>

timeVars == <<now, tpc, sent, nrecv>>

closeVars == <<wpath, wpc, isOpen, events, wbuf, arrived, fwd, seen, after>>

scalerVars == <<fsKind, fsInput, built, scaled>>

encoderVars == <<force_keyframe, frame_count, emitted, elast>>

lanVars == <<addr, verdict>>

regVars == <<DEVICES, CONNECTIONS, qconn, nQ, nowMs, last>>

svcVars == <<SERVICE_RUNNING, QUIC_ENDPOINT, cellSets, endpoints, acceptLoops, discoveries, sc, nStarts, nSvcStops>>

renderVars == <<rplat, rOpen, cmdq, rpc, closeCalled, rfRes, lateEnq, nRF, nWinEv>>

xferVars == <<xinfo, xstatus, xrecv, xdone>>

sharerAll == <<sharerVars, taskVars, streamVars, viewerEndVars>>

\* what the actions of one part leave alone
notSharer == <<viewerVars, netVars, codecVars, timeVars, closeVars, scalerVars, encoderVars, lanVars, regVars, svcVars, renderVars, xferVars>>
notViewer == <<sharerAll, netVars, codecVars, timeVars, closeVars, scalerVars, encoderVars, lanVars, regVars, svcVars, renderVars, xferVars>>
notNet == <<sharerAll, viewerVars, codecVars, timeVars, closeVars, scalerVars, encoderVars, lanVars, regVars, svcVars, renderVars, xferVars>>
notCodec == <<sharerAll, viewerVars, netVars, timeVars, closeVars, scalerVars, encoderVars, lanVars, regVars, svcVars, renderVars, xferVars>>

notTime == <<sharerAll, viewerVars, netVars, codecVars, closeVars, scalerVars, encoderVars, lanVars, regVars, svcVars, renderVars, xferVars>>

notClose == <<sharerAll, viewerVars, netVars, codecVars, timeVars, scalerVars, encoderVars, lanVars, regVars, svcVars, renderVars, xferVars>>

notScaler == <<sharerAll, viewerVars, netVars, codecVars, timeVars, closeVars, encoderVars, lanVars, regVars, svcVars, renderVars, xferVars>>

notEncoder == <<sharerAll, viewerVars, netVars, codecVars, timeVars, closeVars, scalerVars, lanVars, regVars, svcVars, renderVars, xferVars>>

notLan == <<sharerAll, viewerVars, netVars, codecVars, timeVars, closeVars, scalerVars, encoderVars, regVars, svcVars, renderVars, xferVars>>

notReg == <<sharerAll, viewerVars, netVars, codecVars, timeVars, closeVars, scalerVars, encoderVars, lanVars, svcVars, renderVars, xferVars>>

notSvc == <<sharerAll, viewerVars, netVars, codecVars, timeVars, closeVars, scalerVars, encoderVars, lanVars, regVars, renderVars, xferVars>>

notRender == <<sharerAll, viewerVars, netVars, codecVars, timeVars, closeVars, scalerVars, encoderVars, lanVars, regVars, svcVars, xferVars>>

notXfer == <<sharerAll, viewerVars, netVars, codecVars, timeVars, closeVars, scalerVars, encoderVars, lanVars, regVars, svcVars, renderVars>>

vars == <<sharerAll, viewerVars, netVars, codecVars, timeVars, closeVars, scalerVars, encoderVars, lanVars, regVars, svcVars, renderVars, xferVars>>

Sessions == 1..MaxSessions
Tasks == 1..MaxTasks
NoDims == <<0, 0>>

Peers == {"10.0.0.1", "10.0.0.2"}
\* the port of a registry key: the peer's listening port (outgoing
\* connections) or its ephemeral source port (accepted connections)
PortKinds == {"listen", "ephemeral"}
Keys == Peers \X PortKinds
Conns == 1..MaxConns
MsgKinds == {"Handshake", "HandshakeAck", "Heartbeat"}

\* the device ids peers announce (a peer draws a new id at each start)
DeviceIds == {"id-a", "id-b"}
QConns == 1..MaxQConns
NoQConn == [ip |-> "none", closed |-> FALSE, handler |-> "none"]
NoOp == [op |-> "none", ip |-> "none", id |-> "none", conn |-> 0, events |-> {},
         devs |-> [d \in DeviceIds |-> <<>>], conns |-> [k \in Keys |-> 0]]

Starters == 1..MaxStarters
ScIdle == [pc |-> "idle", sawRunning |-> FALSE, ep |-> 0, ret |-> "none"]

NotDone == [status |-> "none", receiver |-> FALSE, is_complete |-> FALSE,
            verified |-> FALSE]
NoCall == [op |-> "none", forced |-> FALSE, res |-> "none"]

StpIdle == [pc |-> "idle", conn |-> 0, dead |-> FALSE, result |-> "none"]
BcIdle == [pc |-> "idle", deadKeys |-> {}, list |-> {}]

\* the service has not been started
InitNet ==
    /\ running = FALSE
    /\ serverUp = FALSE
    /\ registry = [k \in Keys |-> 0]
    /\ nConns = 0
    /\ connPeer = [c \in Conns |-> "none"]
    /\ alive = [c \in Conns |-> FALSE]
    /\ handler = [c \in Conns |-> "none"]
    /\ devices = {}
    /\ dispatchLog = [c \in Conns |-> <<>>]
    /\ stp = StpIdle
    /\ bc = BcIdle
    /\ nOps = 0
    /\ opens = {}
    /\ ss = [pc |-> "idle", keys |-> {}]
    /\ atReturn = [conns |-> {}, devices |-> {}]

\* no media stream has been accepted
InitViewer ==
    /\ vpath \in {"drain", "single"}
    /\ wire = <<>>
    /\ wstate = "init"
    /\ nWire = <<0, 0>>
    /\ wdims = NoDims
    /\ vpc = "recv"
    /\ window = "none"
    /\ decoder = NoDims
    /\ vdecoded = <<>>
    /\ vrendered = <<>>
    /\ batches = <<>>

InitSharer ==
    /\ active = FALSE
    /\ stopTx = 0
    /\ stopChan = [s \in Sessions |-> 0]
    /\ sharerState = 0
    /\ storePending = {}
    /\ nSess = 0
    /\ display \in Displays
    /\ capStopped = [s \in Sessions |-> FALSE]
    /\ cmds = <<>>
    /\ pc = [t \in Tasks |-> "idle"]
    /\ held = [t \in Tasks |-> 0]
    /\ scaler = [t \in Tasks |-> NoDims]
    /\ enc = [t \in Tasks |-> NoDims]
    /\ sequence = [t \in Tasks |-> 0]
    /\ req_data = [t \in Tasks |-> NoDims]
    /\ outcome = [t \in Tasks |-> "none"]
    /\ log = [t \in Tasks |-> <<>>]
    /\ finished = [t \in Tasks |-> FALSE]
    /\ strm = [t \in Tasks |-> "none"]
    /\ upstream = [t \in Tasks |-> <<>>]
    /\ nReqs = 0
    /\ outstanding = [t \in Tasks |-> {}]
    /\ lastStartRecv = [t \in Tasks |-> [dims |-> NoDims, reqs |-> {}]]


(***************************************************************************)
(* Payloads of the media stream (encode_start_message,                     *)
(* encode_frame_message, encode_stop_message).  `ok` is the result of the  *)
(* send_framed call the payload was handed to.                             *)
(***************************************************************************)
StartMsg(d, ok) == [k |-> "Start", dims |-> d, ok |-> ok]
FrameMsg(ok) == [k |-> "Frame", dims |-> NoDims, ok |-> ok]
StopMsg(ok) == [k |-> "Stop", dims |-> NoDims, ok |-> ok]

\* the viewer's record after it reads a StreamStart with dimensions d
StartReceived(t, d) ==
    /\ lastStartRecv' = [lastStartRecv EXCEPT ![t] =
                            [dims |-> d, reqs |-> outstanding[t]]]
    /\ outstanding' = [outstanding EXCEPT ![t] = {}]
    /\ UNCHANGED nReqs

\* stream.send_framed succeeds while the peer reads and the connection is up
SendOk(t) == strm[t] = "open"

\* stream.send_framed is two write_all().await without a timeout: it returns
\* once the bytes are accepted or the stream or connection has failed
SendReturns(t) == strm[t] # "stalled"

\* a task between taking the SharerState and leaving handle_viewer_request
InLoop(t) == pc[t] \in {"loop", "tick", "sending", "exit"}

RECURSIVE SumFrames(_)
SumFrames(S) ==
    IF S = {} THEN 0
    ELSE LET t == CHOOSE x \in S : TRUE
         IN  Cardinality({i \in 1..Len(log[t]) : log[t][i].k = "Frame"})
             + SumFrames(S \ {t})
NumFrames == SumFrames(1..MaxTasks)
NumStops == Cardinality({i \in 1..Len(cmds) : cmds[i] = "stop"})

(***************************************************************************)
(* start_sharing(display_id), the path that creates a session.  The early  *)
(* return "already sharing" and the error returns (capture or encoder      *)
(* could not be created) change none of the globals.  The state-storing    *)
(* thread it spawns is StoreState.                                         *)
(***************************************************************************)
StartSharing ==
    /\ ~active
    /\ nSess < MaxSessions
    /\ nSess' = nSess + 1
    /\ stopTx' = nSess + 1
    /\ active' = TRUE
    /\ storePending' = storePending \cup {nSess + 1}
    /\ cmds' = Append(cmds, "start")
    /\ UNCHANGED <<stopChan, sharerState, display, capStopped>>
    /\ UNCHANGED <<taskVars, streamVars, viewerEndVars>>
    /\ UNCHANGED notSharer

\* the "simple-sharer-state" thread: *SHARER_STATE.write() = Some(SharerState{..})
StoreState(s) ==
    /\ s \in storePending
    /\ sharerState' = s
    /\ storePending' = storePending \ {s}
    /\ UNCHANGED <<active, stopTx, stopChan, nSess, display, capStopped, cmds>>
    /\ UNCHANGED <<taskVars, streamVars, viewerEndVars>>
    /\ UNCHANGED notSharer

\* the SharerState of session s, and with it its stop receiver, still exists
StateAlive(s) ==
    \/ s \in storePending
    \/ sharerState = s
    \/ \E t \in Tasks : InLoop(t) /\ held[t] = s

(***************************************************************************)
(* stop_sharing: clear the flag, try_send on the stored Sender (which      *)
(* fails when the channel is full or its receiver is gone), drop the       *)
(* stored SharerState.                                                     *)
(***************************************************************************)
StopSharing ==
    /\ NumStops < MaxStops
    /\ active' = FALSE
    /\ stopChan' = IF stopTx # 0 /\ StateAlive(stopTx) /\ stopChan[stopTx] = 0
                   THEN [stopChan EXCEPT ![stopTx] = 1]
                   ELSE stopChan
    /\ stopTx' = 0
    /\ sharerState' = 0
    /\ cmds' = Append(cmds, "stop")
    /\ UNCHANGED <<storePending, nSess, display, capStopped>>
    /\ UNCHANGED <<taskVars, streamVars, viewerEndVars>>
    /\ UNCHANGED notSharer

(***************************************************************************)
(* handle_viewer_request(peer_ip), up to the opened stream.  `live` is     *)
(* whether find_connection finds a connection to the viewer on which       *)
(* open_bi_stream succeeds.                                                *)
(***************************************************************************)
HVR_Begin(t, live) ==
    /\ pc[t] = "idle"
    /\ \A u \in Tasks : u < t => pc[u] # "idle"
    /\ IF ~active
       THEN /\ pc' = [pc EXCEPT ![t] = "done"]
            /\ outcome' = [outcome EXCEPT ![t] = "notSharing"]
            /\ UNCHANGED strm
       ELSE IF ~live
       THEN /\ pc' = [pc EXCEPT ![t] = "done"]
            /\ outcome' = [outcome EXCEPT ![t] = "noConn"]
            /\ UNCHANGED strm
       ELSE /\ pc' = [pc EXCEPT ![t] = "opened"]
            /\ strm' = [strm EXCEPT ![t] = "open"]
            /\ UNCHANGED outcome
    /\ UNCHANGED <<held, scaler, enc, sequence, req_data, log, finished, upstream>>
    /\ UNCHANGED <<sharerVars, viewerEndVars>>
    /\ UNCHANGED notSharer

(***************************************************************************)
(* handle_viewer_request: SHARER_STATE.write().take(), then the first      *)
(* StreamStart.  A failed send returns and drops the taken state.          *)
(***************************************************************************)
HVR_Take(t) ==
    /\ pc[t] = "opened"
    /\ (sharerState # 0 => SendReturns(t))
    /\ IF sharerState = 0
       THEN /\ pc' = [pc EXCEPT ![t] = "done"]
            /\ outcome' = [outcome EXCEPT ![t] = "noState"]
            /\ UNCHANGED <<held, scaler, enc, log, sharerState>>
            /\ UNCHANGED viewerEndVars
       ELSE LET s == sharerState
                d == new_with_target(display,
                         <<SIMPLE_TARGET_WIDTH, SIMPLE_TARGET_HEIGHT>>)
            IN  /\ sharerState' = 0
                /\ held' = [held EXCEPT ![t] = s]
                /\ scaler' = [scaler EXCEPT ![t] = d]
                /\ enc' = [enc EXCEPT ![t] = d]
                /\ log' = [log EXCEPT ![t] = <<StartMsg(d, SendOk(t))>>]
                /\ IF SendOk(t)
                   THEN /\ pc' = [pc EXCEPT ![t] = "loop"]
                        /\ outcome' = [outcome EXCEPT ![t] = "streaming"]
                        /\ StartReceived(t, d)
                   ELSE /\ pc' = [pc EXCEPT ![t] = "done"]
                        /\ outcome' = [outcome EXCEPT ![t] = "startFailed"]
                        /\ UNCHANGED viewerEndVars
    /\ UNCHANGED <<sequence, req_data, finished, strm, upstream>>
    /\ UNCHANGED <<active, stopTx, stopChan, storePending, nSess, display,
                   capStopped, cmds>>
    /\ UNCHANGED notSharer

(***************************************************************************)
(* Stream::try_recv_framed on the sharer's end: the oldest complete frame  *)
(* the viewer sent that is buffered, none when nothing is buffered.        *)
(***************************************************************************)
try_recv_framed(t) == IF upstream[t] = <<>> THEN NoDims ELSE Head(upstream[t])

(***************************************************************************)
(* Top of the frame loop: the stop check (stop_rx.try_recv() consumes a    *)
(* queued message; otherwise the flag is read), then the non-blocking read *)
(* of a ResolutionRequest.  The scaler is replaced first; the encoder,     *)
(* encode_width/height and the new StreamStart follow only when the new    *)
(* encoder could be created and initialised (encOk); `sequence` restarts   *)
(* at 0 once that StreamStart was sent.                                    *)
(***************************************************************************)
HVR_Check(t, encOk) ==
    /\ pc[t] = "loop"
    /\ IF stopChan[held[t]] = 1 \/ ~active
       THEN /\ stopChan' = [stopChan EXCEPT ![held[t]] = 0]
            /\ pc' = [pc EXCEPT ![t] = "exit"]
            /\ outcome' = [outcome EXCEPT ![t] = "stopSignal"]
            /\ UNCHANGED <<scaler, enc, sequence, req_data, log, upstream>>
            /\ UNCHANGED viewerEndVars
       ELSE IF try_recv_framed(t) = NoDims
       THEN /\ encOk
            /\ pc' = [pc EXCEPT ![t] = "tick"]
            /\ UNCHANGED <<stopChan, outcome, scaler, enc, sequence, req_data>>
            /\ UNCHANGED <<log, upstream, viewerEndVars>>
       ELSE LET d == new_with_target(display, try_recv_framed(t))
            IN  /\ upstream' = [upstream EXCEPT ![t] = Tail(upstream[t])]
                /\ req_data' = [req_data EXCEPT ![t] = try_recv_framed(t)]
                /\ scaler' = [scaler EXCEPT ![t] = d]
                /\ UNCHANGED stopChan
                /\ IF ~encOk
                   THEN /\ pc' = [pc EXCEPT ![t] = "tick"]
                        /\ UNCHANGED <<enc, sequence, log, outcome, viewerEndVars>>
                   ELSE /\ SendReturns(t)
                        /\ enc' = [enc EXCEPT ![t] = d]
                        /\ log' = [log EXCEPT ![t] =
                                      Append(log[t], StartMsg(d, SendOk(t)))]
                        /\ IF SendOk(t)
                           THEN /\ pc' = [pc EXCEPT ![t] = "tick"]
                                /\ sequence' = [sequence EXCEPT ![t] = 0]
                                /\ StartReceived(t, d)
                                /\ UNCHANGED outcome
                           ELSE /\ pc' = [pc EXCEPT ![t] = "exit"]
                                /\ outcome' = [outcome EXCEPT ![t] = "sendFailed"]
                                /\ UNCHANGED <<sequence, viewerEndVars>>
    /\ UNCHANGED <<held, finished, strm>>
    /\ UNCHANGED <<active, stopTx, sharerState, storePending, nSess, display,
                   capStopped, cmds>>
    /\ UNCHANGED notSharer

(***************************************************************************)
(* Rest of one loop iteration: capture, scale, encode, send.  A capture or *)
(* encode error skips the frame; an empty encoder output is counted and    *)
(* skipped; otherwise the frame is sent and counted.  The request read at  *)
(* the top of the turn goes out of scope.  While the send does not return  *)
(* the task stays at the await ("sending").                                *)
(***************************************************************************)
HVR_Frame(t, encoded) ==
    /\ pc[t] = "tick"
    /\ req_data' = [req_data EXCEPT ![t] = NoDims]
    /\ CASE encoded = "error" ->
               /\ pc' = [pc EXCEPT ![t] = "loop"]
               /\ UNCHANGED <<log, outcome, sequence>>
         [] encoded = "empty" ->
               /\ sequence[t] < MaxFrames
               /\ sequence' = [sequence EXCEPT ![t] = sequence[t] + 1]
               /\ pc' = [pc EXCEPT ![t] = "loop"]
               /\ UNCHANGED <<log, outcome>>
         [] encoded = "data" ->
               /\ NumFrames < MaxFrames
               /\ IF ~SendReturns(t)
                  THEN /\ pc' = [pc EXCEPT ![t] = "sending"]
                       /\ UNCHANGED <<log, outcome, sequence>>
                  ELSE /\ log' = [log EXCEPT ![t] =
                                     Append(log[t], FrameMsg(SendOk(t)))]
                       /\ IF SendOk(t)
                          THEN /\ pc' = [pc EXCEPT ![t] = "loop"]
                               /\ sequence' = [sequence EXCEPT ![t] = sequence[t] + 1]
                               /\ UNCHANGED outcome
                          ELSE /\ pc' = [pc EXCEPT ![t] = "exit"]
                               /\ outcome' = [outcome EXCEPT ![t] = "sendFailed"]
                               /\ UNCHANGED sequence
    /\ UNCHANGED <<held, scaler, enc, finished, strm, upstream>>
    /\ UNCHANGED <<sharerVars, viewerEndVars>>
    /\ UNCHANGED notSharer

(***************************************************************************)
(* stream.send_framed(&frame_data).await returns to a task that was held   *)
(* at it: the rest of the loop iteration.                                  *)
(***************************************************************************)
HVR_SendDone(t) ==
    /\ pc[t] = "sending"
    /\ SendReturns(t)
    /\ log' = [log EXCEPT ![t] = Append(log[t], FrameMsg(SendOk(t)))]
    /\ IF SendOk(t)
       THEN /\ pc' = [pc EXCEPT ![t] = "loop"]
            /\ sequence' = [sequence EXCEPT ![t] = sequence[t] + 1]
            /\ UNCHANGED outcome
       ELSE /\ pc' = [pc EXCEPT ![t] = "exit"]
            /\ outcome' = [outcome EXCEPT ![t] = "sendFailed"]
            /\ UNCHANGED sequence
    /\ UNCHANGED <<held, scaler, enc, req_data, finished, strm, upstream>>
    /\ UNCHANGED <<sharerVars, viewerEndVars>>
    /\ UNCHANGED notSharer

\* what the code after the loop hands to send_framed
ExitPayloadsNone(ok) == <<>>

ExitPayloads(ok) == <<StopMsg(ok)>>

(***************************************************************************)
(* After the loop: send StreamStop (result ignored), finish the stream,    *)
(* capture.stop(), SIMPLE_SHARER_ACTIVE.store(false).  The SharerState is  *)
(* dropped with the task.                                                  *)
(***************************************************************************)
HVR_Exit(t) ==
    /\ pc[t] = "exit"
    /\ SendReturns(t)
    /\ log' = [log EXCEPT ![t] = log[t] \o ExitPayloads(SendOk(t))]
    /\ finished' = [finished EXCEPT ![t] = TRUE]
    /\ capStopped' = [capStopped EXCEPT ![held[t]] = TRUE]
    /\ active' = FALSE
    /\ pc' = [pc EXCEPT ![t] = "done"]
    /\ UNCHANGED <<held, scaler, enc, sequence, req_data, outcome, strm, upstream>>
    /\ UNCHANGED <<stopTx, stopChan, sharerState, storePending, nSess, display,
                   cmds>>
    /\ UNCHANGED viewerEndVars
    /\ UNCHANGED notSharer

(***************************************************************************)
(* The viewer's end of the media stream (lib.rs, process_simple_message    *)
(* and the event poll of handle_simple_stream_with_first).                 *)
(***************************************************************************)
\* ResolutionRequested(w, h, bps) from the toolbar, sent upstream
ViewerRequest(t, r) ==
    /\ strm[t] = "open"
    /\ lastStartRecv[t].dims # NoDims
    /\ nReqs < MaxReqs
    /\ nReqs' = nReqs + 1
    /\ upstream' = [upstream EXCEPT ![t] = Append(upstream[t], r)]
    /\ outstanding' = [outstanding EXCEPT ![t] = outstanding[t] \cup {r}]
    /\ UNCHANGED <<lastStartRecv, log, finished, strm>>
    /\ UNCHANGED <<sharerVars, taskVars>>
    /\ UNCHANGED notSharer

\* the viewer leaves its receive loop, or the connection is lost
ViewerGone(t) ==
    /\ strm[t] \in {"open", "stalled"}
    /\ strm' = [strm EXCEPT ![t] = "gone"]
    /\ UNCHANGED <<log, finished, upstream>>
    /\ UNCHANGED <<sharerVars, taskVars, viewerEndVars>>
    /\ UNCHANGED notSharer

\* the viewer's handler stops reading the stream for good while its connection
\* stays up (keep-alives are answered by the peer's endpoint, not by the handler)
ViewerStalls(t) ==
    /\ strm[t] = "open"
    /\ strm' = [strm EXCEPT ![t] = "stalled"]
    /\ UNCHANGED <<log, finished, upstream>>
    /\ UNCHANGED <<sharerVars, taskVars, viewerEndVars>>
    /\ UNCHANGED notSharer


NextSharer ==
    \/ StartSharing
    \/ \E s \in Sessions : StoreState(s)
    \/ StopSharing
    \/ \E t \in Tasks, live \in BOOLEAN : HVR_Begin(t, live)
    \/ \E t \in Tasks : HVR_Take(t)
    \/ \E t \in Tasks, encOk \in BOOLEAN : HVR_Check(t, encOk)
    \/ \E t \in Tasks, encoded \in {"error", "empty", "data"} : HVR_Frame(t, encoded)
    \/ \E t \in Tasks : HVR_Exit(t)
    \/ \E t \in Tasks, r \in ReqOptions : ViewerRequest(t, r)
    \/ \E t \in Tasks : ViewerGone(t)

\* the viewer part at rest, for the specifications of the other parts
ViewerOff == InitViewer /\ vpath = "single"

\* the sharer part at rest, for the specifications of the other parts
SharerOff == InitSharer /\ display = <<1920, 1080>>

\* no control stream is being read
CodecOff ==
    /\ cmode = "off"
    /\ cmsg = [type |-> "ScreenStop"]
    /\ cprefix = <<>>
    /\ nfed = 0
    /\ payloads = <<>>
    /\ buffer = <<>>
    /\ results = <<>>
    /\ rt = <<>>
    /\ hpc = "off"
    /\ replies = <<>>
    /\ first_data = <<>>

\* no media stream is being timed
TimeOff ==
    /\ now = 0
    /\ tpc = "off"
    /\ sent = <<>>
    /\ nrecv = 0

\* no receive loop is being watched
CloseOff ==
    /\ wpath = "off"
    /\ wpc = "off"
    /\ isOpen = FALSE
    /\ events = <<>>
    /\ wbuf = 0
    /\ arrived = 0
    /\ fwd = 0
    /\ seen = FALSE
    /\ after = 0

\* the frame scaler part is not exercised
ScalerOff ==
    /\ fsKind = "off"
    /\ fsInput = <<2, 2, 2, 2>>
    /\ built = <<>>
    /\ scaled = <<>>

\* the software encoder part is not exercised
EncoderOff ==
    /\ force_keyframe = FALSE
    /\ frame_count = 0
    /\ emitted = <<>>
    /\ elast = NoCall

\* the address filter is not exercised
LanOff ==
    /\ addr = <<"V6">>
    /\ verdict = <<>>

\* no device is known and no connection was made
RegOff ==
    /\ DEVICES = [d \in DeviceIds |-> <<>>]
    /\ CONNECTIONS = [k \in Keys |-> 0]
    /\ qconn = [c \in QConns |-> NoQConn]
    /\ nQ = 0
    /\ nowMs = 0
    /\ last = NoOp

\* the service was not started
SvcOff ==
    /\ SERVICE_RUNNING = FALSE
    /\ QUIC_ENDPOINT = 0
    /\ cellSets = <<>>
    /\ endpoints = {}
    /\ acceptLoops = {}
    /\ discoveries = 0
    /\ sc = [t \in Starters |-> ScIdle]
    /\ nStarts = 0
    /\ nSvcStops = 0

\* the render thread is not followed
RenderOff ==
    /\ rplat = "macos"
    /\ rOpen = TRUE
    /\ cmdq = <<>>
    /\ rpc = "top"
    /\ closeCalled = FALSE
    /\ rfRes = "none"
    /\ lateEnq = FALSE
    /\ nRF = 0
    /\ nWinEv = 0

\* no file is offered
XferOff ==
    /\ xinfo = [i \in 1..NumChunks |-> 0]
    /\ xstatus = "none"
    /\ xrecv = <<>>
    /\ xdone = NotDone

InitS == InitSharer /\ ViewerOff /\ InitNet /\ CodecOff /\ TimeOff /\ CloseOff /\ ScalerOff /\ EncoderOff /\ LanOff /\ RegOff /\ SvcOff /\ RenderOff /\ XferOff

SpecSharer == InitS /\ [][NextSharer]_vars

(***************************************************************************)
(* Properties of the sharer (SpecSharer).                                  *)
(***************************************************************************)
Abs(x) == IF x < 0 THEN -x ELSE x

\* the stream of task t begins with a StreamStart
Served(t) == log[t] # <<>> /\ log[t][1].k = "Start"

\* the task left handle_viewer_request through the end of the frame loop
LoopExited(t) == pc[t] = "done" /\ outcome[t] \in {"stopSignal", "sendFailed"}

\* C1: when a frame loop has ended because a send failed and stop_sharing was
\* not called since the session started, the sharer is still active: the flag
\* is set and the session's capture has not been stopped.
C1_SharerSurvivesSendFailure ==
    \A t \in Tasks :
        (pc[t] = "done" /\ outcome[t] = "sendFailed" /\ stopTx = held[t])
            => (active /\ ~capStopped[held[t]])

\* C2: while the sharer is active and another viewer's frame loop is running,
\* a viewer request that found the sharer active and a live connection has a
\* stream whose first payload is StreamStart.
C2_ViewerServedWhileAnotherStreams ==
    \A t \in Tasks :
        (/\ pc[t] = "done"
         /\ outcome[t] \notin {"notSharing", "noConn"}
         /\ active
         /\ \E u \in Tasks \ {t} : pc[u] \in {"loop", "tick"} /\ held[u] = stopTx)
            => Served(t)

\* C3: after start_sharing, stop_sharing, start_sharing, and until the next
\* stop_sharing, the sharer is active.
C3_RestartStaysActive ==
    (Len(cmds) >= 3 /\ SubSeq(cmds, Len(cmds) - 2, Len(cmds))
                           = <<"start", "stop", "start">>)
        => active

\* C4: at most one capture/scaler/encoder/stop-receiver set exists, counting
\* the stored one, the ones still to be stored and the ones frame loops hold.
C4_OneSessionSet ==
    Cardinality({s \in Sessions : StateAlive(s)}) <= 1

\* C5: on every media stream the first payload handed to send_framed is a
\* StreamStart, a StreamFrame follows only a StreamStart that was sent,
\* nothing follows a StreamStop, and a task that left the frame loop has sent
\* StreamStop last and finished the stream.
C5_StreamOrdering ==
    \A t \in Tasks :
        /\ log[t] # <<>> => log[t][1].k = "Start"
        /\ \A i \in 1..Len(log[t]) :
              /\ log[t][i].k = "Frame" => (log[t][1].k = "Start" /\ log[t][1].ok)
              /\ log[t][i].k = "Stop" => i = Len(log[t])
        /\ LoopExited(t) =>
              (log[t] # <<>> /\ log[t][Len(log[t])].k = "Stop" /\ finished[t])
        /\ finished[t] => LoopExited(t)

\* C5 witness: a loop that sent StreamStart and a StreamFrame was stopped and
\* has left with StreamStop.
C5_Witness ==
    \E t \in Tasks :
        /\ LoopExited(t)
        /\ \E i \in 1..Len(log[t]) : log[t][i].k = "Frame" /\ log[t][i].ok
        /\ log[t][Len(log[t])] = StopMsg(TRUE)

\* the StreamStart dimensions d answer a request for the box r
Fits(d, r) ==
    /\ d[1] <= r[1]
    /\ d[2] <= r[2]
    /\ d[1] % 2 = 0
    /\ d[2] % 2 = 0
    /\ Abs(d[1] * display[2] - d[2] * display[1]) <= 2 * Max(display[1], display[2])

\* C6: the StreamStart a viewer received last fits every ResolutionRequest
\* the viewer had sent since the StreamStart before it.
C6_NextStartFitsRequest ==
    \A t \in Tasks :
        \A r \in lastStartRecv[t].reqs : Fits(lastStartRecv[t].dims, r)

(***************************************************************************)
(* The viewer's handler of one media stream.  vpath selects the handler:   *)
(* handle_simple_stream (simple_streaming/mod.rs), which drains the        *)
(* buffered frames, or handle_simple_stream_with_first with                *)
(* process_simple_message (lib.rs), which handles one payload per receive. *)
(***************************************************************************)
WireStartMsg(d) == [k |-> "Start", dims |-> d, id |-> 0]
\* a StreamFrame carries a picture of the dimensions d the encoder had
WireFrameMsg(i, d) == [k |-> "Frame", dims |-> d, id |-> i]
WireStopMsg == [k |-> "Stop", dims |-> NoDims, id |-> 0]

\* dimensions a StreamStart may carry
StartDims == { new_with_target(d, r) : d \in {<<1920, 1080>>}, r \in ReqOptions }

\* the sharer's handle_viewer_request puts a StreamStart on the stream
WireStart(d) ==
    /\ vpc = "recv"
    /\ wstate # "stopped"
    /\ nWire[1] < MaxWireStarts
    /\ wire' = Append(wire, WireStartMsg(d))
    /\ wstate' = "started"
    /\ nWire' = <<nWire[1] + 1, nWire[2]>>
    /\ wdims' = d
    /\ UNCHANGED <<vpath, vpc, window, decoder, vdecoded, vrendered, batches>>
    /\ UNCHANGED notViewer

\* ... a StreamFrame; frames are numbered in the order they are sent
WireFrame ==
    /\ vpc = "recv"
    /\ wstate = "started"
    /\ nWire[2] < MaxWireFrames
    /\ wire' = Append(wire, WireFrameMsg(nWire[2] + 1, wdims))
    /\ nWire' = <<nWire[1], nWire[2] + 1>>
    /\ UNCHANGED <<vpath, wstate, wdims, vpc, window, decoder, vdecoded, vrendered,
                   batches>>
    /\ UNCHANGED notViewer

\* ... the StreamStop, and finishes the stream
WireStop ==
    /\ vpc = "recv"
    /\ wstate = "started"
    /\ wire' = Append(wire, WireStopMsg)
    /\ wstate' = "stopped"
    /\ UNCHANGED <<vpath, nWire, wdims, vpc, window, decoder, vdecoded, vrendered,
                   batches>>
    /\ UNCHANGED notViewer

\* the user closes the render window: is_open() becomes false
WindowClose ==
    /\ vpc = "recv"
    /\ window = "open"
    /\ window' = "closed"
    /\ UNCHANGED <<vpath, wire, wstate, nWire, wdims, vpc, decoder, vdecoded,
                   vrendered, batches>>
    /\ UNCHANGED notViewer

\* leaving the receive loop: the cleanup closes the window if there is one
Leave ==
    /\ vpc' = "done"
    /\ window' = IF window = "none" THEN "none" ELSE "closed"

\* the is_open() check at the top of the receive loop
VExitClosed ==
    /\ vpc = "recv"
    /\ window = "closed"
    /\ Leave
    /\ UNCHANGED <<vpath, wire, wstate, nWire, wdims, decoder, vdecoded, vrendered,
                   batches>>
    /\ UNCHANGED notViewer

\* recv_framed fails with nothing buffered: the connection was lost
VStreamErr ==
    /\ vpc = "recv"
    /\ wire = <<>>
    /\ Leave
    /\ UNCHANGED <<vpath, wire, wstate, nWire, wdims, decoder, vdecoded, vrendered,
                   batches>>
    /\ UNCHANGED notViewer

\* the longest prefix of w made of StreamFrames
RECURSIVE FramePrefix(_)
FramePrefix(w) ==
    IF w = <<>> \/ Head(w).k # "Frame" THEN <<>>
    ELSE <<Head(w)>> \o FramePrefix(Tail(w))

(***************************************************************************)
(* The drain of handle_simple_stream: a zero-timeout recv_framed while the *)
(* next buffered payload is a StreamFrame; a StreamStop is pushed and ends *)
(* the drain; any other payload that was read ends the drain too.          *)
(* Drained(w) is what the drain reads from the buffer w, Pending(w) what   *)
(* ends up in pending_frames.                                              *)
(***************************************************************************)
Drained(w) ==
    LET f == FramePrefix(Tail(w))
        n == 1 + Len(f)
    IN  IF Len(w) > n THEN SubSeq(w, 1, n + 1) ELSE SubSeq(w, 1, n)

Pending(w) ==
    LET d == Drained(w)
    IN  IF d[Len(d)].k = "Start" THEN SubSeq(d, 1, Len(d) - 1) ELSE d

Idx(n) == [i \in 1..n |-> i]

\* the frames of pending_frames, in order
FramesOf(pending) ==
    LET IsFrame(i) == pending[i].k = "Frame"
        F == SelectSeq(Idx(Len(pending)), IsFrame)
    IN  [j \in 1..Len(F) |-> pending[F[j]].id]

IsLastAlways(pending, i) == TRUE

\* is_last: the frame is the last entry, or the entry before the StreamStop
is_last(pending, i) ==
    \/ i = Len(pending)
    \/ i + 1 <= Len(pending) /\ pending[i + 1].k = "Stop"

\* the dimensions of the pictures the frames of pending_frames carry
DimsOf(pending) ==
    LET IsFrame(i) == pending[i].k = "Frame"
        F == SelectSeq(Idx(Len(pending)), IsFrame)
    IN  [j \in 1..Len(F) |-> pending[F[j]].dims]

\* the frames handed to render_frame: decoded to a picture (res) and is_last
RenderedOf(pending, res) ==
    LET Shown(i) == pending[i].k = "Frame" /\ res[i] /\ is_last(pending, i)
        R == SelectSeq(Idx(Len(pending)), Shown)
    IN  [j \in 1..Len(R) |-> pending[R[j]].id]

\* StreamStart in either handler: new decoder, window created if there is none
VStart(m, decOk, winOk) ==
    IF ~decOk \/ (window = "none" /\ ~winOk)
    THEN /\ IF vpath = "drain" THEN Leave ELSE UNCHANGED <<vpc, window>>
         /\ UNCHANGED decoder
    ELSE /\ decoder' = m.dims
         /\ window' = IF window = "none" THEN "open" ELSE window
         /\ UNCHANGED vpc

\* StreamFrame in handle_simple_stream: drain, window and decoder checks,
\* decode every frame, render the last one
VFrameDrain(res) ==
    LET pending == Pending(wire)
        run == window = "open" /\ decoder # NoDims
    IN  /\ wire' = SubSeq(wire, Len(Drained(wire)) + 1, Len(wire))
        /\ batches' = Append(batches, [frames |-> FramesOf(pending), run |-> run,
                                        pics |-> DimsOf(pending),
                                        dec |-> decoder])
        /\ IF run
           THEN /\ vdecoded' = vdecoded \o FramesOf(pending)
                /\ vrendered' = vrendered \o RenderedOf(pending, res)
                /\ IF pending[Len(pending)].k = "Stop"
                   THEN Leave
                   ELSE UNCHANGED <<vpc, window>>
           ELSE /\ UNCHANGED <<vdecoded, vrendered>>
                /\ IF window = "closed" THEN Leave ELSE UNCHANGED <<vpc, window>>
        /\ UNCHANGED decoder

\* a frame handler that leaves the receive loop when decode gives no picture
VFrameSingleLeaveOnError(res) ==
    LET m == Head(wire)
        run == window = "open" /\ decoder # NoDims
    IN  /\ wire' = Tail(wire)
        /\ batches' = Append(batches, [frames |-> <<m.id>>, run |-> run,
                                        pics |-> <<m.dims>>,
                                        dec |-> decoder])
        /\ vdecoded' = IF run THEN Append(vdecoded, m.id) ELSE vdecoded
        /\ vrendered' = IF run /\ res[1] THEN Append(vrendered, m.id)
                        ELSE vrendered
        /\ IF run /\ ~res[1] THEN Leave ELSE UNCHANGED <<vpc, window>>
        /\ UNCHANGED decoder

\* StreamFrame in process_simple_message: one frame, rendered when decoded
VFrameSingle(res) ==
    LET m == Head(wire)
        run == window = "open" /\ decoder # NoDims
    IN  /\ wire' = Tail(wire)
        /\ batches' = Append(batches, [frames |-> <<m.id>>, run |-> run,
                                        pics |-> <<m.dims>>,
                                        dec |-> decoder])
        /\ vdecoded' = IF run THEN Append(vdecoded, m.id) ELSE vdecoded
        /\ vrendered' = IF run /\ res[1] THEN Append(vrendered, m.id)
                        ELSE vrendered
        /\ UNCHANGED <<vpc, window, decoder>>

\* one receive and what the handler does with the payload
VRecv(decOk, winOk, res) ==
    /\ vpc = "recv"
    /\ wire # <<>>
    /\ CASE Head(wire).k = "Start" ->
              /\ VStart(Head(wire), decOk, winOk)
              /\ wire' = Tail(wire)
              /\ UNCHANGED <<vdecoded, vrendered, batches>>
         [] Head(wire).k = "Stop" ->
              /\ Leave
              /\ wire' = Tail(wire)
              /\ UNCHANGED <<decoder, vdecoded, vrendered, batches>>
         [] Head(wire).k = "Frame" ->
              IF vpath = "drain" THEN VFrameDrain(res) ELSE VFrameSingle(res)
    /\ UNCHANGED <<vpath, wstate, nWire, wdims>>
    /\ UNCHANGED notViewer

NextViewer ==
    \/ \E d \in StartDims : WireStart(d)
    \/ WireFrame
    \/ WireStop
    \/ WindowClose
    \/ VExitClosed
    \/ VStreamErr
    \/ \E decOk \in BOOLEAN, winOk \in BOOLEAN,
          res \in [1..MaxWireFrames -> BOOLEAN] : VRecv(decOk, winOk, res)

InitV == InitViewer /\ SharerOff /\ InitNet /\ CodecOff /\ TimeOff /\ CloseOff /\ ScalerOff /\ EncoderOff /\ LanOff /\ RegOff /\ SvcOff /\ RenderOff /\ XferOff

SpecViewer == InitV /\ [][NextViewer]_vars

(***************************************************************************)
(* Properties of the viewer's handler (SpecViewer).                        *)
(***************************************************************************)
Count(q, x) == Cardinality({i \in 1..Len(q) : q[i] = x})

\* the frames of b occur in q, each once, next to each other and in b's order
DecodedInOrder(b, q) ==
    \/ b = <<>>
    \/ \E o \in 0..Len(q) :
          /\ o + Len(b) <= Len(q)
          /\ \A j \in 1..Len(b) : q[o + j] = b[j] /\ Count(q, b[j]) = 1

\* every rendered frame is the last frame of a batch
OnlyLastRendered ==
    \A i \in 1..Len(vrendered) :
        \E n \in 1..Len(batches) :
            /\ batches[n].frames # <<>>
            /\ batches[n].frames[Len(batches[n].frames)] = vrendered[i]

\* C7 as stated: every batch the viewer has read was decoded frame by frame,
\* each frame once and in arrival order, and only last frames were rendered.
C7_EveryBatchDecoded ==
    /\ \A n \in 1..Len(batches) : DecodedInOrder(batches[n].frames, vdecoded)
    /\ OnlyLastRendered

\* C7, amended: a batch read while the render window is open and a decoder
\* exists (run) is decoded frame by frame, each frame once and in arrival
\* order; any other batch is dropped undecoded; only last frames of batches
\* are rendered, and the decoder sees frames in arrival order.
C7_OpenWindowBatchDecoded ==
    /\ \A n \in 1..Len(batches) :
          IF batches[n].run
          THEN DecodedInOrder(batches[n].frames, vdecoded)
          ELSE \A j \in 1..Len(batches[n].frames) :
                   Count(vdecoded, batches[n].frames[j]) = 0
    /\ OnlyLastRendered
    /\ \A i, j \in 1..Len(vdecoded) : i < j => vdecoded[i] < vdecoded[j]

\* C7 witness: a batch of several frames was decoded and its last frame, and
\* no other, was rendered.
C7_Witness ==
    \E n \in 1..Len(batches) :
        /\ batches[n].run
        /\ Len(batches[n].frames) >= 2
        /\ Count(vrendered, batches[n].frames[Len(batches[n].frames)]) = 1
        /\ Count(vdecoded, batches[n].frames[1]) = 1

(***************************************************************************)
(* The service: start_service and stop_service (commands/mod.rs), the      *)
(* accept loop and the connection registry (network/quic.rs), the          *)
(* per-connection handler (lib.rs) and the device registry                 *)
(* (network/discovery.rs).                                                 *)
(***************************************************************************)
Entries == {k \in Keys : registry[k] # 0}

\* a removal of the key ip:DEFAULT_PORT alone
RemoveListenKeyOnly(reg, p) == [k \in Keys |-> IF k = <<p, "listen">> THEN 0 ELSE reg[k]]

\* remove_connection_by_ip: drop every key of that ip
remove_connection_by_ip(reg, p) == [k \in Keys |-> IF k[1] = p THEN 0 ELSE reg[k]]

\* start_service, first call: mDNS discovery, the endpoint and its accept
\* loop are started, SERVICE_RUNNING is set
StartService ==
    /\ ~running
    /\ ~serverUp
    /\ serverUp' = TRUE
    /\ running' = TRUE
    /\ UNCHANGED <<registry, nConns, connPeer, alive, handler, devices,
                   dispatchLog, stp, bc, nOps, opens, ss, atReturn>>
    /\ UNCHANGED notNet

\* a new connection object, registered in reg under key k (HashMap::insert
\* replaces an entry with the same key), with its handler task spawned
NewConn(reg, k, firstLog) ==
    /\ nConns < MaxConns
    /\ nConns' = nConns + 1
    /\ registry' = [reg EXCEPT ![k] = nConns + 1]
    /\ connPeer' = [connPeer EXCEPT ![nConns + 1] = k[1]]
    /\ alive' = [alive EXCEPT ![nConns + 1] = TRUE]
    /\ handler' = [handler EXCEPT ![nConns + 1] = "running"]
    /\ dispatchLog' = [dispatchLog EXCEPT ![nConns + 1] = firstLog]

\* the accept loop of start_server: it runs until the endpoint is closed,
\* which stop_service does not do
Accept(p) ==
    /\ serverUp
    /\ NewConn(registry, <<p, "ephemeral">>, <<>>)
    /\ UNCHANGED <<running, serverUp, devices, stp, bc, nOps, opens, ss,
                   atReturn>>
    /\ UNCHANGED notNet

\* add_manual_device: connect whatever the registry holds, send Handshake,
\* read the HandshakeAck on the same stream, add the device, spawn the
\* handler
add_manual_device(p) ==
    /\ serverUp
    /\ NewConn(registry, <<p, "listen">>, <<"HandshakeAck">>)
    /\ devices' = devices \cup {p}
    /\ UNCHANGED <<running, serverUp, stp, bc, nOps, opens, ss, atReturn>>
    /\ UNCHANGED notNet

\* ensure_peer_connection: found is the entry find_connection returned (any
\* key of that ip), 0 for none. A live one ends the call; a dead one has
\* every entry of the ip removed. Then connect, send Handshake, read the
\* HandshakeAck on the same stream, spawn the handler.
ensure_peer_connection(p, found) ==
    /\ serverUp
    /\ IF \E k \in Entries : k[1] = p
          THEN \E k \in Entries : k[1] = p /\ registry[k] = found
          ELSE found = 0
    /\ found # 0 => ~alive[found]
    /\ NewConn(IF found # 0 THEN remove_connection_by_ip(registry, p)
                ELSE registry,
               <<p, "listen">>, <<"HandshakeAck">>)
    /\ UNCHANGED <<running, serverUp, devices, stp, bc, nOps, opens, ss,
                   atReturn>>
    /\ UNCHANGED notNet

\* the transport of a connection gets a close reason (peer closed, timeout)
ConnDies(c) ==
    /\ c <= nConns
    /\ alive[c]
    /\ alive' = [alive EXCEPT ![c] = FALSE]
    /\ UNCHANGED <<running, serverUp, registry, nConns, connPeer, handler,
                   devices, dispatchLog, stp, bc, nOps, opens, ss, atReturn>>
    /\ UNCHANGED notNet

RECURSIVE SumLen(_)
SumLen(S) ==
    IF S = {} THEN 0
    ELSE LET c == CHOOSE x \in S : TRUE
         IN  Len(dispatchLog[c]) + SumLen(S \ {c})

(***************************************************************************)
(* handle_incoming_connection, one accepted control stream: the first      *)
(* payload is decoded and handed to handle_message, whatever its type.     *)
(* Handshake adds the peer to DEVICES.                                     *)
(***************************************************************************)
HandlerDispatch(c, kind) ==
    /\ handler[c] = "running"
    /\ alive[c]
    /\ SumLen(Conns) < MaxMsgs
    /\ dispatchLog' = [dispatchLog EXCEPT ![c] = Append(dispatchLog[c], kind)]
    /\ devices' = IF kind = "Handshake" THEN devices \cup {connPeer[c]}
                  ELSE devices
    /\ UNCHANGED <<running, serverUp, registry, nConns, connPeer, alive,
                   handler, stp, bc, nOps, opens, ss, atReturn>>
    /\ UNCHANGED notNet

\* handle_incoming_connection after accept_bi_stream failed: the devices
\* with the peer's ip and the registry entries of that ip are removed
HandlerEnd(c) ==
    /\ handler[c] = "running"
    /\ ~alive[c]
    /\ handler' = [handler EXCEPT ![c] = "ended"]
    /\ devices' = devices \ {connPeer[c]}
    /\ registry' = remove_connection_by_ip(registry, connPeer[c])
    /\ UNCHANGED <<running, serverUp, nConns, connPeer, alive, dispatchLog,
                   stp, bc, nOps, opens, ss, atReturn>>
    /\ UNCHANGED notNet

\* the mDNS browse thread: ServiceResolved (add_device) and ServiceRemoved
MdnsEvent(p, add) ==
    /\ serverUp
    /\ devices' = IF add THEN devices \cup {p} ELSE devices \ {p}
    /\ devices' # devices
    /\ UNCHANGED <<running, serverUp, registry, nConns, connPeer, alive,
                   handler, dispatchLog, stp, bc, nOps, opens, ss, atReturn>>
    /\ UNCHANGED notNet

(***************************************************************************)
(* send_to_peer(ip): find_connection, then the is_alive check: a dead      *)
(* connection prunes the registry and returns the error, a live one gets   *)
(* open_bi_stream under a timeout of 3 s.  `opened` is whether the stream  *)
(* was opened in time; when it was not, the call logs a warning and        *)
(* returns the error.  When find_connection finds nothing the call returns *)
(* "Peer not found" and changes nothing.  After the return `stp` keeps how *)
(* the call ended and, after a timeout, the connection it used.            *)
(***************************************************************************)
STP_Find(k) ==
    /\ stp.pc = "idle"
    /\ nOps < MaxOps
    /\ registry[k] # 0
    /\ nOps' = nOps + 1
    /\ stp' = [pc |-> "found", conn |-> registry[k], dead |-> ~alive[registry[k]],
               result |-> "none"]
    /\ UNCHANGED <<running, serverUp, registry, nConns, connPeer, alive,
                   handler, devices, dispatchLog, bc, opens, ss, atReturn>>
    /\ UNCHANGED notNet

STP_Send(opened) ==
    /\ stp.pc = "found"
    /\ IF ~alive[stp.conn]
       THEN /\ opened
            /\ registry' = remove_connection_by_ip(registry, connPeer[stp.conn])
            /\ stp' = [StpIdle EXCEPT !.result = "dead"]
            /\ UNCHANGED opens
       ELSE /\ opens' = opens \cup {[op |-> "send_to_peer", dead |-> stp.dead]}
            /\ stp' = IF opened THEN [StpIdle EXCEPT !.result = "sent"]
                       ELSE [StpIdle EXCEPT !.result = "timeout", !.conn = stp.conn]
            /\ UNCHANGED registry
    /\ UNCHANGED <<running, serverUp, nConns, connPeer, alive, handler,
                   devices, dispatchLog, bc, nOps, ss, atReturn>>
    /\ UNCHANGED notNet

(***************************************************************************)
(* broadcast_message: cleanup_dead_connections (collect the dead keys      *)
(* under the read lock, remove them under the write lock), then            *)
(* get_all_connections, then open_bi_stream on every connection of that    *)
(* list.                                                                   *)
(***************************************************************************)
BC_Scan ==
    /\ bc.pc = "idle"
    /\ nOps < MaxOps
    /\ nOps' = nOps + 1
    /\ bc' = [pc |-> "scanned",
              deadKeys |-> {k \in Entries : ~alive[registry[k]]},
              list |-> {}]
    /\ UNCHANGED <<running, serverUp, registry, nConns, connPeer, alive,
                   handler, devices, dispatchLog, stp, opens, ss, atReturn>>
    /\ UNCHANGED notNet

BC_Remove ==
    /\ bc.pc = "scanned"
    /\ registry' = [k \in Keys |-> IF k \in bc.deadKeys THEN 0 ELSE registry[k]]
    /\ bc' = [bc EXCEPT !.pc = "cleaned", !.deadKeys = {}]
    /\ UNCHANGED <<running, serverUp, nConns, connPeer, alive, handler,
                   devices, dispatchLog, stp, nOps, opens, ss, atReturn>>
    /\ UNCHANGED notNet

\* get_all_connections; `dead` records is_alive at this lookup
BC_GetAll ==
    /\ bc.pc = "cleaned"
    /\ bc' = [bc EXCEPT !.pc = "listed",
                        !.list = {[conn |-> registry[k], dead |-> ~alive[registry[k]]]
                                      : k \in Entries}]
    /\ UNCHANGED <<running, serverUp, registry, nConns, connPeer, alive,
                   handler, devices, dispatchLog, stp, nOps, opens, ss, atReturn>>
    /\ UNCHANGED notNet

BC_Open ==
    /\ bc.pc = "listed"
    /\ opens' = opens \cup {[op |-> "broadcast_message", dead |-> e.dead]
                               : e \in bc.list}
    /\ bc' = BcIdle
    /\ UNCHANGED <<running, serverUp, registry, nConns, connPeer, alive,
                   handler, devices, dispatchLog, stp, nOps, ss, atReturn>>
    /\ UNCHANGED notNet

(***************************************************************************)
(* stop_service: disconnect(None) (snapshot of the keys, then close and    *)
(* remove each), clear_devices, SERVICE_RUNNING = false, return.  The      *)
(* endpoint is not closed, so the accept loop, the handlers and the mDNS   *)
(* thread keep running.                                                    *)
(***************************************************************************)
SS_Snapshot ==
    /\ ss.pc = "idle"
    /\ running
    /\ ss' = [pc |-> "snapshot", keys |-> Entries]
    /\ UNCHANGED <<running, serverUp, registry, nConns, connPeer, alive,
                   handler, devices, dispatchLog, stp, bc, nOps, opens, atReturn>>
    /\ UNCHANGED notNet

SS_Disconnect ==
    /\ ss.pc = "snapshot"
    /\ alive' = [c \in Conns |->
                    IF \E k \in ss.keys : registry[k] = c THEN FALSE ELSE alive[c]]
    /\ registry' = [k \in Keys |-> IF k \in ss.keys THEN 0 ELSE registry[k]]
    /\ ss' = [pc |-> "disconnected", keys |-> {}]
    /\ UNCHANGED <<running, serverUp, nConns, connPeer, handler, devices,
                   dispatchLog, stp, bc, nOps, opens, atReturn>>
    /\ UNCHANGED notNet

SS_Clear ==
    /\ ss.pc = "disconnected"
    /\ devices' = {}
    /\ ss' = [ss EXCEPT !.pc = "cleared"]
    /\ UNCHANGED <<running, serverUp, registry, nConns, connPeer, alive,
                   handler, dispatchLog, stp, bc, nOps, opens, atReturn>>
    /\ UNCHANGED notNet

SS_Return ==
    /\ ss.pc = "cleared"
    /\ running' = FALSE
    /\ ss' = [ss EXCEPT !.pc = "returned"]
    /\ atReturn' = [conns |-> Entries, devices |-> devices]
    /\ UNCHANGED <<serverUp, registry, nConns, connPeer, alive, handler,
                   devices, dispatchLog, stp, bc, nOps, opens>>
    /\ UNCHANGED notNet

NextNet ==
    \/ StartService
    \/ \E p \in Peers : Accept(p)
    \/ \E p \in Peers : add_manual_device(p)
    \/ \E p \in Peers, found \in {0} \cup Conns : ensure_peer_connection(p, found)
    \/ \E c \in Conns : ConnDies(c)
    \/ \E c \in Conns, kind \in MsgKinds : HandlerDispatch(c, kind)
    \/ \E c \in Conns : HandlerEnd(c)
    \/ \E p \in Peers, add \in BOOLEAN : MdnsEvent(p, add)
    \/ \E k \in Keys : STP_Find(k)
    \/ \E opened \in BOOLEAN : STP_Send(opened)
    \/ BC_Scan
    \/ BC_Remove
    \/ BC_GetAll
    \/ BC_Open
    \/ SS_Snapshot
    \/ SS_Disconnect
    \/ SS_Clear
    \/ SS_Return

InitN == InitNet /\ SharerOff /\ ViewerOff /\ CodecOff /\ TimeOff /\ CloseOff /\ ScalerOff /\ EncoderOff /\ LanOff /\ RegOff /\ SvcOff /\ RenderOff /\ XferOff

SpecNet == InitN /\ [][NextNet]_vars

(***************************************************************************)
(* Properties of the service (SpecNet).                                    *)
(***************************************************************************)
Handshakes == {"Handshake", "HandshakeAck"}

\* C8: on every connection, a message that is not a handshake is handed to
\* handle_message only after a Handshake or HandshakeAck was processed on
\* that connection.
C8_HandshakeFirst ==
    \A c \in Conns :
        \A i \in 1..Len(dispatchLog[c]) :
            dispatchLog[c][i] \notin Handshakes
                => \E j \in 1..(i - 1) : dispatchLog[c][j] \in Handshakes

\* C9: no send operation has called open_bi_stream on a connection that had a
\* close reason when the operation looked it up in the registry.
C9_NoOpenOnDeadConnection ==
    \A o \in opens : ~o.dead

\* C10: when stop_service returned, CONNECTIONS and DEVICES were both empty.
C10_StopServiceEmptiesRegistries ==
    ss.pc = "returned" => (atReturn.conns = {} /\ atReturn.devices = {})

(***************************************************************************)
(* The control protocol (network/protocol.rs).  A frame is                 *)
(* MAGIC(2) VERSION(1) TYPE(1) LENGTH(4, big-endian) PAYLOAD, the payload  *)
(* being the bincode serialisation of the Message.  Bytes are 0..255 and   *)
(* byte strings are sequences of bytes.  The model's integers stay under   *)
(* 2^31: the integer fields of the modelled messages are chosen below it.  *)
(***************************************************************************)
MAGIC == <<76, 77>>
VERSION == 1
MAX_MESSAGE_SIZE == 16777216
HEADER_SIZE == 8

\* a decoded integer of 2^31 or more
Beyond == -1

Take(b, n) == SubSeq(b, 1, n)
Drop(b, n) == SubSeq(b, n + 1, Len(b))

\* n.to_le_bytes() for a k-byte unsigned integer (bincode's fixed-width ints)
to_le_bytes(n, k) ==
    [i \in 1..k |-> IF i <= 4 THEN (n \div (256 ^ (i - 1))) % 256 ELSE 0]

\* the length written least significant byte first
ToBeBytesLittle(n) == [i \in 1..4 |-> (n \div (256 ^ (i - 1))) % 256]

\* (n as u32).to_be_bytes()
to_be_bytes(n) == [i \in 1..4 |-> (n \div (256 ^ (4 - i))) % 256]

\* the value of a little-endian integer of 1, 4 or 8 bytes
from_le_bytes(b) ==
    LET at(i) == IF i <= Len(b) THEN b[i] ELSE 0
    IN  IF at(4) >= 128 \/ \E i \in 5..Len(b) : b[i] # 0 THEN Beyond
        ELSE at(1) + 256 * at(2) + 65536 * at(3) + 16777216 * at(4)

\* u32::from_be_bytes of the header's length field; every length above
\* MAX_MESSAGE_SIZE takes the same branch, so those are read as
\* MAX_MESSAGE_SIZE + 1
from_be_bytes(b) ==
    IF b[1] >= 2 THEN MAX_MESSAGE_SIZE + 1
    ELSE 16777216 * b[1] + 65536 * b[2] + 256 * b[3] + b[4]

\* the enum Message: variant names in declaration order (bincode writes the
\* index of the variant, from 0, as a u32)
Variants ==
    << "Handshake", "HandshakeAck", "Disconnect", "Heartbeat", "HeartbeatAck",
       "ScreenOffer", "ScreenRequest", "ScreenStart", "ScreenFrame",
       "ScreenStop", "ControlRequest", "ControlGrant", "ControlRevoke",
       "InputEvent", "ChatMessage", "FileOffer", "FileAccept", "FileReject",
       "FileChunk", "FileComplete", "FileCancel" >>

variant_index(name) == (CHOOSE i \in 1..Len(Variants) : Variants[i] = name) - 1

\* Message::message_type as u8
message_type(m) ==
    CASE m.type = "Handshake" -> 0
      [] m.type = "HandshakeAck" -> 1
      [] m.type = "Disconnect" -> 2
      [] m.type = "Heartbeat" -> 3
      [] m.type = "HeartbeatAck" -> 4
      [] m.type = "ScreenOffer" -> 16
      [] m.type = "ScreenRequest" -> 17
      [] m.type = "ScreenStart" -> 18
      [] m.type = "ScreenFrame" -> 19
      [] m.type = "ScreenStop" -> 20
      [] m.type = "ControlRequest" -> 32
      [] m.type = "ControlGrant" -> 33
      [] m.type = "ControlRevoke" -> 34
      [] m.type = "InputEvent" -> 35
      [] m.type = "ChatMessage" -> 48
      [] m.type = "FileOffer" -> 64
      [] m.type = "FileAccept" -> 65
      [] m.type = "FileReject" -> 66
      [] m.type = "FileChunk" -> 67
      [] m.type = "FileComplete" -> 68
      [] m.type = "FileCancel" -> 69

\* MessageType::try_from(u8) is Ok
KnownType(byte) ==
    byte \in (0..4) \cup (16..20) \cup (32..35) \cup {48} \cup (64..69)

\* The fields of each variant of Message, in declaration order, with the way
\* bincode writes each: "u8", "u32", "u64" fixed-width little-endian,
\* "bool" one byte, "str" and "bytes" a u64 length and the bytes, "optstr"
\* a tag byte and the string, "vecstr" a u64 count and the strings,
\* "frametype" the u32 index of the FrameType variant.  ScreenOffer
\* (Vec<DisplayInfo>) and InputEvent (f32, InputData) are not modelled.
Schema(type) ==
    CASE type = "Handshake" ->
            << <<"device_id", "str">>, <<"name", "str">>,
               <<"version", "str">>, <<"capabilities", "vecstr">> >>
      [] type = "HandshakeAck" ->
            << <<"device_id", "str">>, <<"name", "str">>,
               <<"version", "str">>, <<"accepted", "bool">>,
               <<"reason", "optstr">> >>
      [] type = "Disconnect" -> << <<"reason", "str">> >>
      [] type = "Heartbeat" -> << <<"timestamp", "u64">> >>
      [] type = "HeartbeatAck" ->
            << <<"timestamp", "u64">>, <<"latency_ms", "u32">> >>
      [] type = "ScreenRequest" ->
            << <<"display_id", "u32">>, <<"preferred_fps", "u8">>,
               <<"preferred_quality", "u8">> >>
      [] type = "ScreenStart" ->
            << <<"width", "u32">>, <<"height", "u32">>, <<"fps", "u8">>,
               <<"codec", "str">> >>
      [] type = "ScreenFrame" ->
            << <<"timestamp", "u64">>, <<"frame_type", "frametype">>,
               <<"sequence", "u32">>, <<"data", "bytes">> >>
      [] type = "ScreenStop" -> << >>
      [] type = "ControlRequest" -> << <<"from_user", "str">> >>
      [] type = "ControlGrant" -> << <<"to_user", "str">> >>
      [] type = "ControlRevoke" -> << >>
      [] type = "ChatMessage" ->
            << <<"from", "str">>, <<"content", "str">>,
               <<"timestamp", "u64">> >>
      [] type = "FileOffer" ->
            << <<"file_id", "str">>, <<"name", "str">>, <<"size", "u64">>,
               <<"checksum", "str">> >>
      [] type = "FileAccept" -> << <<"file_id", "str">> >>
      [] type = "FileReject" -> << <<"file_id", "str">> >>
      [] type = "FileChunk" ->
            << <<"file_id", "str">>, <<"offset", "u64">>,
               <<"data", "bytes">> >>
      [] type = "FileComplete" -> << <<"file_id", "str">> >>
      [] type = "FileCancel" -> << <<"file_id", "str">> >>

Modelled(type) == type \notin {"ScreenOffer", "InputEvent"}

Width(kind) == CASE kind = "u8" -> 1 [] kind = "u32" -> 4 [] kind = "u64" -> 8

FrameTypes == <<"KeyFrame", "DeltaFrame">>

RECURSIVE Concat(_)
Concat(parts) ==
    IF parts = <<>> THEN <<>> ELSE Head(parts) \o Concat(Tail(parts))

\* bincode::serialize of one field.  Option<String> is <<>> (None) or <<s>>
\* (Some(s)).
ser_val(kind, v) ==
    CASE kind \in {"u8", "u32", "u64"} -> to_le_bytes(v, Width(kind))
      [] kind = "bool" -> <<IF v THEN 1 ELSE 0>>
      [] kind \in {"str", "bytes"} -> to_le_bytes(Len(v), 8) \o v
      [] kind = "optstr" ->
            IF v = <<>> THEN <<0>>
            ELSE <<1>> \o to_le_bytes(Len(v[1]), 8) \o v[1]
      [] kind = "vecstr" ->
            to_le_bytes(Len(v), 8)
                \o Concat([i \in 1..Len(v) |->
                               to_le_bytes(Len(v[i]), 8) \o v[i]])
      [] kind = "frametype" ->
            to_le_bytes((CHOOSE i \in 1..2 : FrameTypes[i] = v) - 1, 4)

\* bincode::serialize(msg): the variant index, then the fields in order
serialize(m) ==
    LET sch == Schema(m.type)
    IN  to_le_bytes(variant_index(m.type), 4)
            \o Concat([i \in 1..Len(sch) |-> ser_val(sch[i][2], m[sch[i][1]])])

\* encode(msg): Ok(bytes), or Err when the payload is over the limit
encode(m) ==
    LET payload == serialize(m)
    IN  IF Len(payload) > MAX_MESSAGE_SIZE THEN [ok |-> FALSE, bytes |-> <<>>]
        ELSE [ok |-> TRUE,
              bytes |-> MAGIC \o <<VERSION, message_type(m)>>
                            \o to_be_bytes(Len(payload)) \o payload]

\* ---- bincode::deserialize: readers return the value and the bytes left ----
Fail == [ok |-> FALSE, val |-> 0, rest |-> <<>>]
Read(v, r) == [ok |-> TRUE, val |-> v, rest |-> r]

rd_int(b, k) ==
    IF Len(b) < k THEN Fail ELSE Read(from_le_bytes(Take(b, k)), Drop(b, k))

\* a u64 length followed by that many bytes; a String must be valid UTF-8
\* (the modelled strings are ASCII: a byte of 128 or more is rejected)
rd_bytes(b, utf8) ==
    LET n == rd_int(b, 8)
    IN  IF ~n.ok \/ n.val = Beyond THEN Fail
        ELSE IF Len(n.rest) < n.val THEN Fail
        ELSE IF utf8 /\ \E i \in 1..n.val : n.rest[i] >= 128 THEN Fail
        ELSE Read(Take(n.rest, n.val), Drop(n.rest, n.val))

\* K applied to the value of r, r being computed once
Then(r, K(_)) == CHOOSE x \in {K(v) : v \in {r}} : TRUE

RECURSIVE rd_strs(_, _)
rd_strs(b, n) ==
    IF n = 0 THEN Read(<<>>, b)
    ELSE Then(rd_bytes(b, TRUE), LAMBDA s :
            IF ~s.ok THEN Fail
            ELSE Then(rd_strs(s.rest, n - 1), LAMBDA more :
                    IF ~more.ok THEN Fail
                    ELSE Read(<<s.val>> \o more.val, more.rest)))

rd_val(kind, b) ==
    CASE kind \in {"u8", "u32", "u64"} -> rd_int(b, Width(kind))
      [] kind = "bool" ->
            IF Len(b) < 1 \/ b[1] > 1 THEN Fail
            ELSE Read(b[1] = 1, Drop(b, 1))
      [] kind = "str" -> rd_bytes(b, TRUE)
      [] kind = "bytes" -> rd_bytes(b, FALSE)
      [] kind = "optstr" ->
            IF Len(b) < 1 \/ b[1] > 1 THEN Fail
            ELSE IF b[1] = 0 THEN Read(<<>>, Drop(b, 1))
            ELSE LET s == rd_bytes(Drop(b, 1), TRUE)
                 IN  IF s.ok THEN Read(<<s.val>>, s.rest) ELSE Fail
      [] kind = "vecstr" ->
            LET n == rd_int(b, 8)
            IN  IF ~n.ok \/ n.val = Beyond \/ n.val > Len(n.rest) THEN Fail
                ELSE rd_strs(n.rest, n.val)
      [] kind = "frametype" ->
            LET i == rd_int(b, 4)
            IN  IF ~i.ok \/ i.val \notin {0, 1} THEN Fail
                ELSE Read(FrameTypes[i.val + 1], i.rest)

\* the fields of a variant, in order: val is the sequence of their values
RECURSIVE rd_fields(_, _)
rd_fields(sch, b) ==
    IF sch = <<>> THEN Read(<<>>, b)
    ELSE Then(rd_val(sch[1][2], b), LAMBDA f :
            IF ~f.ok THEN Fail
            ELSE Then(rd_fields(Tail(sch), f.rest), LAMBDA more :
                    IF ~more.ok THEN Fail
                    ELSE Read(<<f.val>> \o more.val, more.rest)))

Err == [ok |-> FALSE, msg |-> [type |-> "none"]]
Ok(m) == [ok |-> TRUE, msg |-> m]

\* bincode::deserialize::<Message>: the variant index, then its fields;
\* bytes after the value are allowed
deserialize(b) ==
    LET idx == rd_int(b, 4)
    IN  IF ~idx.ok \/ idx.val \notin 0..(Len(Variants) - 1) THEN Err
        ELSE LET type == Variants[idx.val + 1]
                 sch == Schema(type)
                 names == {sch[i][1] : i \in 1..Len(sch)}
             IN  IF ~Modelled(type) THEN Err
                 ELSE Then(rd_fields(sch, idx.rest), LAMBDA fs :
                        IF ~fs.ok THEN Err
                        ELSE Ok([n \in names \cup {"type"} |->
                                  IF n = "type" THEN type
                                  ELSE fs.val[CHOOSE i \in 1..Len(sch) :
                                                  sch[i][1] = n]]))

\* decode(data): header checks, then the payload's deserialisation
decode(data) ==
    IF Len(data) < HEADER_SIZE THEN Err
    ELSE IF Take(data, 2) # MAGIC THEN Err
    ELSE IF data[3] # VERSION THEN Err
    ELSE IF ~KnownType(data[4]) THEN Err
    ELSE LET len == from_be_bytes(SubSeq(data, 5, 8))
         IN  IF len > MAX_MESSAGE_SIZE THEN Err
             ELSE IF Len(data) < HEADER_SIZE + len THEN Err
             ELSE deserialize(SubSeq(data, HEADER_SIZE + 1, HEADER_SIZE + len))

(***************************************************************************)
(* The messages and byte strings of the model.                             *)
(***************************************************************************)
\* decode calls on one codec in one run
MaxDecodes == 4

\* strings: "", "a", "LM" (the bytes of MAGIC)
Strs == { <<>>, <<97>>, <<76, 77>> }

Messages ==
    {[type |-> "Heartbeat", timestamp |-> t] : t \in {0, 255, 19788, 16777216}}
    \cup {[type |-> "HeartbeatAck", timestamp |-> 1, latency_ms |-> l] :
            l \in {0, 65536}}
    \cup {[type |-> "Disconnect", reason |-> r] : r \in Strs}
    \cup {[type |-> "Handshake", device_id |-> <<97>>, name |-> <<76, 77>>,
           version |-> <<49>>, capabilities |-> c] :
            c \in { <<>>, << <<97>>, <<>> >> }}
    \cup {[type |-> "HandshakeAck", device_id |-> <<97>>, name |-> <<>>,
           version |-> <<49>>, accepted |-> a, reason |-> r] :
            a \in BOOLEAN, r \in { <<>>, << <<97>> >> }}
    \cup {[type |-> "ScreenRequest", display_id |-> 1, preferred_fps |-> 30,
           preferred_quality |-> 80]}
    \cup {[type |-> "ScreenStart", width |-> 1920, height |-> 1080,
           fps |-> 30, codec |-> <<104>>]}
    \cup {[type |-> "ScreenFrame", timestamp |-> 1, frame_type |-> f,
           sequence |-> 258, data |-> d] :
            f \in {"KeyFrame", "DeltaFrame"}, d \in { <<>>, <<0, 255>> }}
    \cup {[type |-> "ScreenStop"], [type |-> "ControlRevoke"]}
    \cup {[type |-> "ControlRequest", from_user |-> <<97>>],
          [type |-> "ControlGrant", to_user |-> <<97>>]}
    \cup {[type |-> "ChatMessage", from |-> <<97>>, content |-> <<76, 77>>,
           timestamp |-> 256]}
    \cup {[type |-> "FileOffer", file_id |-> <<97>>, name |-> <<>>,
           size |-> 65537, checksum |-> <<97>>]}
    \cup {[type |-> t, file_id |-> <<97>>] :
            t \in {"FileAccept", "FileReject", "FileComplete", "FileCancel"}}
    \cup {[type |-> "FileChunk", file_id |-> <<97>>, offset |-> 512,
           data |-> <<1, 2, 3>>]}

\* what a peer may put in front of an encoded message on a control stream:
\* nothing, three bytes that are no message type and hold no MAGIC, three
\* bytes starting with MSG_TYPE_START, three bytes ending with MAGIC
Prefixes == { <<>>, <<9, 9, 9>>, <<1, 9, 9>>, <<9, 76, 77>> }

\* every split of a byte string into three chunks, in order
Splits(b) ==
    UNION { { << SubSeq(b, 1, i), SubSeq(b, i + 1, j),
                 SubSeq(b, j + 1, Len(b)) >> : j \in i..Len(b) } :
            i \in 0..Len(b) }

(***************************************************************************)
(* MessageCodec (network/protocol.rs 351-440).                             *)
(***************************************************************************)
\* find_magic: position of the first window equal to MAGIC, -1 for None
find_magic(buf) ==
    LET hits == {i \in 1..(Len(buf) - 1) : SubSeq(buf, i, i + 1) = MAGIC}
    IN  IF hits = {} THEN -1
        ELSE (CHOOSE i \in hits : \A j \in hits : i <= j) - 1

NoneRes == [kind |-> "None", msg |-> [type |-> "none"]]
ErrRes == [kind |-> "Err", msg |-> [type |-> "none"]]
SomeRes(m) == [kind |-> "Some", msg |-> m]

\* a decode that leaves a decoded message in the buffer
CodecDecodeNoSplit(buf) ==
    IF Len(buf) < HEADER_SIZE \/ Take(buf, 2) # MAGIC
        THEN [res |-> NoneRes, buf |-> buf]
    ELSE LET total_len == HEADER_SIZE + from_be_bytes(SubSeq(buf, 5, 8))
         IN  IF Len(buf) < total_len THEN [res |-> NoneRes, buf |-> buf]
             ELSE LET d == decode(Take(buf, total_len))
                  IN  [res |-> IF d.ok THEN SomeRes(d.msg) ELSE ErrRes,
                       buf |-> buf]

\* MessageCodec::decode: the result and the buffer it leaves
codec_decode(buf) ==
    IF Len(buf) < HEADER_SIZE THEN [res |-> NoneRes, buf |-> buf]
    ELSE IF Take(buf, 2) # MAGIC
        THEN [res |-> ErrRes,
              buf |-> IF find_magic(buf) = -1 THEN <<>>
                      ELSE Drop(buf, find_magic(buf))]
    ELSE LET len == from_be_bytes(SubSeq(buf, 5, 8))
             total_len == HEADER_SIZE + len
         IN  IF len > MAX_MESSAGE_SIZE
                 THEN [res |-> ErrRes, buf |-> Drop(buf, HEADER_SIZE)]
             ELSE IF Len(buf) < total_len THEN [res |-> NoneRes, buf |-> buf]
             ELSE Then(decode(Take(buf, total_len)), LAMBDA d :
                    [res |-> IF d.ok THEN SomeRes(d.msg) ELSE ErrRes,
                     buf |-> Drop(buf, total_len)])

\* one decode call: its result, the bytes fed by then, and the buffer before
\* and after the call
Called(r) == [res |-> r.res, fed |-> nfed, before |-> buffer, after |-> r.buf]

\* chunks fed so far
Fed == 3 - Len(payloads)

\* MessageCodec::feed: the next chunk is appended to the buffer.  The owner
\* calls decode after each feed.
feed ==
    /\ cmode \in {"codec", "resync"}
    /\ payloads # <<>>
    /\ Len(results) >= Fed
    /\ buffer' = buffer \o Head(payloads)
    /\ nfed' = nfed + Len(Head(payloads))
    /\ payloads' = Tail(payloads)
    /\ UNCHANGED <<cmode, cmsg, cprefix, results, rt, hpc, replies, first_data>>
    /\ UNCHANGED notCodec

\* MessageCodec::decode, called by the owner of the codec: once after each
\* feed, and again after the last
codec_decode_call ==
    /\ cmode \in {"codec", "resync"}
    /\ Len(results) < (IF payloads = <<>> THEN MaxDecodes ELSE Fed)
    /\ \E r \in {codec_decode(buffer)} :
          /\ buffer' = r.buf
          /\ results' = Append(results, Called(r))
    /\ UNCHANGED <<cmode, cmsg, cprefix, nfed, payloads, rt, hpc, replies, first_data>>
    /\ UNCHANGED notCodec

\* decode(&encode(&m)?)
RoundTrip ==
    /\ cmode = "roundtrip"
    /\ rt = <<>>
    /\ encode(cmsg).ok
    /\ rt' = << decode(encode(cmsg).bytes) >>
    /\ UNCHANGED <<cmode, cmsg, cprefix, nfed, payloads, buffer, results, hpc,
                   replies, first_data>>
    /\ UNCHANGED notCodec

MSG_TYPE_START == 1
MSG_TYPE_FRAME == 2
MSG_TYPE_STOP == 3
MSG_TYPE_RESOLUTION_REQUEST == 4

\* encode_start_message: type, width and height big-endian
encode_start_message(w, h) == <<MSG_TYPE_START>> \o to_be_bytes(w) \o to_be_bytes(h)

\* encode_frame_message: type, timestamp (u64 big-endian), length, data
encode_frame_message(timestamp, data) ==
    <<MSG_TYPE_FRAME>> \o <<0, 0, 0, 0>> \o to_be_bytes(timestamp)
        \o to_be_bytes(Len(data)) \o data

encode_stop_message == <<MSG_TYPE_STOP>>

\* encode_resolution_request: type, target width, target height, bitrate
encode_resolution_request(target_width, target_height, bitrate) ==
    <<MSG_TYPE_RESOLUTION_REQUEST>> \o to_be_bytes(target_width)
        \o to_be_bytes(target_height) \o to_be_bytes(bitrate)

\* the media payloads of the model, two of each kind that has fields
MediaPayloads ==
    { encode_start_message(SIMPLE_TARGET_WIDTH, SIMPLE_TARGET_HEIGHT),
      encode_start_message(1920, 1080),
      encode_frame_message(1, <<0, 0, 0, 1, 101>>),
      encode_frame_message(19788, <<>>),
      encode_stop_message,
      encode_resolution_request(1920, 1080, 4000000),
      encode_resolution_request(1280, 720, 0) }

\* decode(data) of one received frame
DecodeFrame ==
    /\ cmode = "frame"
    /\ rt = <<>>
    /\ rt' = << decode(Head(payloads)) >>
    /\ UNCHANGED <<cmode, cmsg, cprefix, nfed, payloads, buffer, results, hpc,
                   replies, first_data>>
    /\ UNCHANGED notCodec

\* a test of the first byte that leaves out the viewer's request
IsSimpleMessageSharerKinds(data) ==
    /\ data # <<>>
    /\ data[1] \in {MSG_TYPE_START, MSG_TYPE_FRAME, MSG_TYPE_STOP}

\* is_simple_message: the first byte is one of the four media message types
is_simple_message(data) ==
    /\ data # <<>>
    /\ data[1] \in {MSG_TYPE_START, MSG_TYPE_FRAME, MSG_TYPE_STOP,
                    MSG_TYPE_RESOLUTION_REQUEST}

\* handle_incoming_connection, the task of one accepted stream: the first
\* recv_framed.  No payload: the task returns.  A media payload: the stream
\* goes to handle_simple_stream_with_first.  Otherwise a fresh codec is fed.
H_First ==
    /\ cmode = "handler"
    /\ hpc = "first"
    /\ IF payloads = <<>>
          THEN /\ hpc' = "closed"
               /\ UNCHANGED <<buffer, nfed, payloads>>
          ELSE /\ payloads' = Tail(payloads)
               /\ IF is_simple_message(Head(payloads))
                     THEN /\ hpc' = "simple"
                          /\ UNCHANGED <<buffer, nfed>>
                     ELSE /\ hpc' = "decode"
                          /\ buffer' = Head(payloads)
                          /\ nfed' = Len(Head(payloads))
    /\ first_data' = IF payloads = <<>> THEN <<>> ELSE <<Head(payloads)>>
    /\ UNCHANGED <<cmode, cmsg, cprefix, results, rt, replies>>
    /\ UNCHANGED notCodec

\* what handle_message sends back on the stream for a decoded message
Reply(m) ==
    CASE m.type = "Heartbeat" ->
            << [type |-> "HeartbeatAck", original |-> m.timestamp] >>
      [] m.type = "Handshake" -> << [type |-> "HandshakeAck"] >>
      [] OTHER -> << >>

\* one turn of `while let Ok(Some(msg)) = codec.decode()`: a message is
\* handed to handle_message and the loop goes on; Ok(None) and Err both end
\* the loop, and the task waits for the next payload
H_Decode ==
    /\ cmode = "handler"
    /\ hpc = "decode"
    /\ \E r \in {codec_decode(buffer)} :
           /\ buffer' = r.buf
           /\ results' = Append(results, Called(r))
           /\ IF r.res.kind = "Some"
                 THEN /\ replies' = replies \o Reply(r.res.msg)
                      /\ hpc' = "decode"
                 ELSE /\ hpc' = "recv"
                      /\ UNCHANGED replies
    /\ UNCHANGED <<cmode, cmsg, cprefix, nfed, payloads, rt, first_data>>
    /\ UNCHANGED notCodec

\* stream.recv_framed() in the loop: the next payload is fed; when the peer
\* has sent nothing more the read fails and the task ends
H_Recv ==
    /\ cmode = "handler"
    /\ hpc = "recv"
    /\ IF payloads = <<>>
          THEN /\ hpc' = "closed"
               /\ UNCHANGED <<buffer, nfed, payloads>>
          ELSE /\ hpc' = "decode"
               /\ buffer' = buffer \o Head(payloads)
               /\ nfed' = nfed + Len(Head(payloads))
               /\ payloads' = Tail(payloads)
    /\ UNCHANGED <<cmode, cmsg, cprefix, results, rt, replies, first_data>>
    /\ UNCHANGED notCodec

NextCodec ==
    \/ feed
    \/ codec_decode_call
    \/ RoundTrip
    \/ DecodeFrame
    \/ H_First
    \/ H_Decode
    \/ H_Recv

\* a later Heartbeat the peer may send on the same stream
LaterMsg == [type |-> "Heartbeat", timestamp |-> 255]

\* seven bytes that are no message: without MAGIC, and holding MAGIC
JunkRuns == { <<9, 9, 9, 9, 9, 9, 9>>, <<9, 76, 77, 9, 9, 9, 9>> }

\* the TYPE bytes a peer may put in a header: those of the messages, and one
\* that names no message type
TypeBytes == {message_type(m) : m \in Messages} \cup {5}

\* a frame with its TYPE byte replaced
Retyped(frame, type) == [frame EXCEPT ![4] = type]

\* One of: a fresh codec about to be fed encode(m) in three chunks ("codec"),
\* or junk and then a Heartbeat in three chunks ("resync"); a message about
\* to be encoded and decoded ("roundtrip"); a received frame, encode(m) with
\* any TYPE byte, about to be decoded ("frame"); a stream task about to read
\* a payload that is a prefix and encode(m), followed or not by a later
\* payload, or about to read a media payload or an empty one ("handler").
InitCodec ==
    /\ cmsg \in Messages
    /\ cmode \in {"codec", "resync", "roundtrip", "frame", "handler"}
    /\ cprefix \in (CASE cmode = "handler" -> Prefixes
                      [] cmode = "resync" -> JunkRuns
                      [] OTHER -> { <<>> })
    /\ cmode = "resync" => cmsg.type = "Heartbeat"
    /\ payloads \in
          CASE cmode = "codec" -> Splits(encode(cmsg).bytes)
            [] cmode = "resync" -> Splits(cprefix \o encode(cmsg).bytes)
            [] cmode = "roundtrip" -> { <<>> }
            [] cmode = "frame" ->
                  { << Retyped(encode(cmsg).bytes, type) >> : type \in TypeBytes }
            [] cmode = "handler" ->
                  { << cprefix \o encode(cmsg).bytes >>,
                    << cprefix \o encode(cmsg).bytes,
                       encode(LaterMsg).bytes >> }
                  \cup (IF cprefix = <<>> /\ cmsg = LaterMsg
                        THEN { <<p>> : p \in MediaPayloads \cup { <<>> } }
                        ELSE {})
    /\ hpc = IF cmode = "handler" THEN "first" ELSE "off"
    /\ nfed = 0
    /\ buffer = <<>>
    /\ results = <<>>
    /\ rt = <<>>
    /\ replies = <<>>
    /\ first_data = <<>>

InitC == InitCodec /\ SharerOff /\ ViewerOff /\ InitNet /\ TimeOff /\ CloseOff /\ ScalerOff /\ EncoderOff /\ LanOff /\ RegOff /\ SvcOff /\ RenderOff /\ XferOff

SpecCodec == InitC /\ [][NextCodec]_vars

\* C11: when the first payload of a control stream was three junk bytes
\* followed by a complete encoded Heartbeat, the stream task has sent a
\* HeartbeatAck for that Heartbeat by the time it ends.
C11_JunkThenHeartbeatAcked ==
    (/\ cmode = "handler"
     /\ cprefix = <<9, 9, 9>>
     /\ cmsg.type = "Heartbeat"
     /\ hpc = "closed")
        => \E i \in 1..Len(replies) :
              /\ replies[i].type = "HeartbeatAck"
              /\ replies[i].original = cmsg.timestamp

\* the decode calls that returned a message
SomeCalls == {i \in 1..Len(results) : results[i].res.kind = "Some"}

\* C12: encode(m) fed in three chunks to a fresh MessageCodec: every decode
\* call made before the last byte was fed returns Ok(None), no call returns
\* an error, and once a decode call was made with all bytes fed exactly one
\* call has returned a message, that message is m, and the buffer is empty.
C12_ThreeChunkDecode ==
    cmode = "codec" =>
        \A n \in {Len(encode(cmsg).bytes)} :
            /\ \A i \in 1..Len(results) :
                /\ results[i].fed < n => results[i].res = NoneRes
                /\ results[i].res.kind # "Err"
                /\ results[i].res.kind = "Some" => results[i].res.msg = cmsg
            /\ Cardinality(SomeCalls) <= 1
            /\ (\E i \in 1..Len(results) : results[i].fed = n)
                  => Cardinality(SomeCalls) = 1 /\ buffer = <<>>

\* three non-empty chunks, a decode call after each, the last one returning
\* the message
C12_Witness ==
    /\ cmode = "codec"
    /\ payloads = <<>>
    /\ Len(results) = 3
    /\ 0 < results[1].fed
    /\ results[1].fed < results[2].fed
    /\ results[2].fed < results[3].fed
    /\ results[3].res = SomeRes(cmsg)
    /\ cmsg.type = "Handshake"
    /\ buffer = <<>>

MaxClock == 3
\* StreamFrame payloads sent on the stream
MaxTsFrames == 3
\* StreamStart payloads sent on the stream
MaxTsStarts == 2

\* the viewer's u64::from_be_bytes of bytes 1..9 of a StreamFrame payload
frame_timestamp(payload) ==
    IF \E i \in 2..5 : payload[i] # 0 THEN Beyond
    ELSE IF payload[6] >= 128 THEN Beyond
    ELSE 16777216 * payload[6] + 65536 * payload[7] + 256 * payload[8]
            + payload[9]

SentOfType(t) == {i \in 1..Len(sent) : sent[i][1] = t}

\* the StreamStart that opens the stream
T_Begin ==
    /\ tpc = "start"
    /\ sent' = <<encode_start_message(SIMPLE_TARGET_WIDTH, SIMPLE_TARGET_HEIGHT)>>
    /\ tpc' = "loop"
    /\ UNCHANGED <<now, nrecv>>
    /\ UNCHANGED notTime

\* the wall clock advances
ClockAdvance ==
    /\ tpc # "off"
    /\ now < MaxClock
    /\ now' = now + 1
    /\ UNCHANGED <<tpc, sent, nrecv>>
    /\ UNCHANGED notTime

\* the wall clock of the host is set back (time synchronisation, the user)
ClockSetBack(v) ==
    /\ tpc # "off"
    /\ v < now
    /\ now' = v
    /\ UNCHANGED <<tpc, sent, nrecv>>
    /\ UNCHANGED notTime

\* one turn of the loop: capture, scale, timestamp = SystemTime::now(),
\* encode.  A capture or encode error and an empty encoder output skip the
\* frame; otherwise the frame is sent.
T_Frame(encoded) ==
    /\ tpc = "loop"
    /\ Cardinality(SentOfType(MSG_TYPE_FRAME)) < MaxTsFrames
    /\ sent' = IF encoded \in {"error", "empty"} THEN sent
               ELSE Append(sent, encode_frame_message(now, <<0, 0, 0, 1>>))
    /\ UNCHANGED <<now, tpc, nrecv>>
    /\ UNCHANGED notTime

\* a resolution request was read: scaler and encoder are rebuilt and a new
\* StreamStart goes out on the same stream
T_Resolution(r) ==
    /\ tpc = "loop"
    /\ Cardinality(SentOfType(MSG_TYPE_START)) < MaxTsStarts
    /\ sent' = Append(sent, encode_start_message(r[1], r[2]))
    /\ UNCHANGED <<now, tpc, nrecv>>
    /\ UNCHANGED notTime

\* the loop ends: StreamStop is sent
T_Exit ==
    /\ tpc = "loop"
    /\ sent' = Append(sent, encode_stop_message)
    /\ tpc' = "done"
    /\ UNCHANGED <<now, nrecv>>
    /\ UNCHANGED notTime

\* the viewer's recv_framed returns the next payload of the stream
T_Receive ==
    /\ nrecv < Len(sent)
    /\ nrecv' = nrecv + 1
    /\ UNCHANGED <<now, tpc, sent>>
    /\ UNCHANGED notTime

NextTime ==
    \/ T_Begin
    \/ ClockAdvance
    \/ \E v \in 0..MaxClock : ClockSetBack(v)
    \/ \E encoded \in {"error", "empty", "data"} : T_Frame(encoded)
    \/ \E r \in ReqOptions : T_Resolution(r)
    \/ T_Exit
    \/ T_Receive

InitTime ==
    /\ now \in 0..MaxClock
    /\ tpc = "start"
    /\ sent = <<>>
    /\ nrecv = 0

InitT == InitTime /\ SharerOff /\ ViewerOff /\ InitNet /\ CodecOff /\ CloseOff /\ ScalerOff /\ EncoderOff /\ LanOff /\ RegOff /\ SvcOff /\ RenderOff /\ XferOff

SpecTime == InitT /\ [][NextTime]_vars

\* the StreamFrame payloads the viewer has received, in order of receipt
ReceivedFrames == {i \in 1..nrecv : sent[i][1] = MSG_TYPE_FRAME}

\* C14: the timestamps of the StreamFrame payloads the viewer has received
\* on the stream are non-decreasing in the order of receipt.
C14_TimestampsNonDecreasing ==
    \A i, j \in ReceivedFrames :
        i < j => frame_timestamp(sent[i]) <= frame_timestamp(sent[j])

(***************************************************************************)
(* The head of the viewer's receive loop (simple_streaming/mod.rs 419-456, *)
(* lib.rs 661-691) and the window thread (renderer/window.rs).  The window *)
(* exists (a StreamStart was processed).  Each turn of the loop polls the  *)
(* window events, checks is_open, then waits up to 100 ms for a payload.   *)
(***************************************************************************)
\* ResolutionRequested events the toolbar sends
MaxEvents == 2
\* payloads that arrive on the stream
MaxArrivals == 2

\* an event sent although is_open stays true
UserCloseEventOnly(withEvent) ==
    /\ wpc \in {"poll", "check", "recv"}
    /\ isOpen
    /\ withEvent
    /\ "CloseRequested" \notin {events[i] : i \in 1..Len(events)}
    /\ events' = Append(events, "CloseRequested")
    /\ UNCHANGED <<wpath, wpc, isOpen, wbuf, arrived, fwd, seen, after>>
    /\ UNCHANGED notClose

\* the window thread: is_open.store(false), and where the user closed the
\* window (window.rs 430-431, 908-909) a CloseRequested event after it; the
\* other stores (renderer failed, panic) send no event
W_Close(withEvent) ==
    /\ wpc \in {"poll", "check", "recv"}
    /\ isOpen
    /\ isOpen' = FALSE
    /\ events' = IF withEvent THEN Append(events, "CloseRequested") ELSE events
    /\ UNCHANGED <<wpath, wpc, wbuf, arrived, fwd, seen, after>>
    /\ UNCHANGED notClose

\* the toolbar of the open window asks for another resolution
W_Toolbar ==
    /\ wpc \in {"poll", "check", "recv"}
    /\ isOpen
    /\ fwd + Len(events) < MaxEvents
    /\ events' = Append(events, "ResolutionRequested")
    /\ UNCHANGED <<wpath, wpc, isOpen, wbuf, arrived, fwd, seen, after>>
    /\ UNCHANGED notClose

\* the sharer's next payload arrives
W_Arrive ==
    /\ wpc \in {"poll", "check", "recv"}
    /\ arrived < MaxArrivals
    /\ arrived' = arrived + 1
    /\ wbuf' = wbuf + 1
    /\ UNCHANGED <<wpath, wpc, isOpen, events, fwd, seen, after>>
    /\ UNCHANGED notClose

\* index of the first CloseRequested in q, Len(q) + 1 when there is none
FirstClose(q) ==
    IF \E i \in 1..Len(q) : q[i] = "CloseRequested"
    THEN CHOOSE i \in 1..Len(q) :
            q[i] = "CloseRequested" /\ \A j \in 1..(i - 1) : q[j] # "CloseRequested"
    ELSE Len(q) + 1

\* `while let Some(event) = handle.try_recv_event()`: handle_simple_stream
\* leaves the while at a CloseRequested; handle_simple_stream_with_first
\* reads every event and acts on ResolutionRequested only
W_Poll ==
    /\ wpc = "poll"
    /\ LET n == IF wpath = "drain" THEN Min(FirstClose(events), Len(events))
                ELSE Len(events)
           read == SubSeq(events, 1, n)
       IN  /\ events' = SubSeq(events, n + 1, Len(events))
           /\ fwd' = fwd + Cardinality({i \in 1..n : read[i] = "ResolutionRequested"})
           /\ seen' = (seen \/ (wpath = "drain" /\ n >= 1 /\ read[n] = "CloseRequested"))
    /\ wpc' = "check"
    /\ UNCHANGED <<wpath, isOpen, wbuf, arrived, after>>
    /\ UNCHANGED notClose

\* `if !handle.is_open() { break; }`, then the cleanup after the loop
W_Check ==
    /\ wpc = "check"
    /\ IF isOpen THEN /\ wpc' = "recv"
                      /\ UNCHANGED seen
       ELSE /\ wpc' = "done"
            /\ seen' = TRUE
    /\ UNCHANGED <<wpath, isOpen, events, wbuf, arrived, fwd, after>>
    /\ UNCHANGED notClose

\* recv_framed under the 100 ms timeout: a payload is received and handled
\* (decode, render), or the timeout fires, or the stream fails
W_Recv(how) ==
    /\ wpc = "recv"
    /\ CASE how = "payload" ->
              /\ wbuf > 0
              /\ wbuf' = wbuf - 1
              /\ after' = after + (IF seen THEN 1 ELSE 0)
              /\ wpc' = "poll"
         [] how = "timeout" ->
              /\ wbuf = 0
              /\ wpc' = "poll"
              /\ UNCHANGED <<wbuf, after>>
         [] how = "error" ->
              /\ wbuf = 0
              /\ wpc' = "done"
              /\ UNCHANGED <<wbuf, after>>
    /\ UNCHANGED <<wpath, isOpen, events, arrived, fwd, seen>>
    /\ UNCHANGED notClose

NextClose ==
    \/ \E withEvent \in BOOLEAN : W_Close(withEvent)
    \/ W_Toolbar
    \/ W_Arrive
    \/ W_Poll
    \/ W_Check
    \/ \E how \in {"payload", "timeout", "error"} : W_Recv(how)

InitClose ==
    /\ wpath \in {"drain", "single"}
    /\ wpc = "poll"
    /\ isOpen = TRUE
    /\ events = <<>>
    /\ wbuf = 0
    /\ arrived = 0
    /\ fwd = 0
    /\ seen = FALSE
    /\ after = 0

InitW == InitClose /\ SharerOff /\ ViewerOff /\ InitNet /\ CodecOff /\ TimeOff /\ ScalerOff /\ EncoderOff /\ LanOff /\ RegOff /\ SvcOff /\ RenderOff /\ XferOff

SpecClose == InitW /\ [][NextClose]_vars

\* C15: once the receive loop has read a CloseRequested event or has seen
\* is_open false, it receives no further payload: it is at the is_open check
\* with the window closed, or it has left the loop.
C15_CloseEndsLoop ==
    /\ after = 0
    /\ seen => (wpc = "done" \/ (wpc = "check" /\ ~isOpen))

\* the loop left on a close while a payload was waiting on the stream
C15_Witness ==
    /\ seen
    /\ wpc = "done"
    /\ wbuf > 0
    /\ arrived = MaxArrivals


(***************************************************************************)
(* The frame scaler (encoder/scaler.rs).                                   *)
(***************************************************************************)
\* the source widths and heights the constructors are given: zero, small
\* odd and even ones, those around a common display and around the encoder
\* maximum
SrcWidths == { 0, 1, 2, 3, 4, 7, 49, 1280, 1921, 3456, 3457, 3840, 3841, 4096 }
SrcHeights == { 0, 1, 2, 3, 6, 47, 720, 1081, 2159, 2160, 2161, 2169, 2200 }
\* the target boxes new_with_target is given: RESOLUTION_OPTIONS, small
\* boxes, an odd box and one beyond the encoder maximum
TargetBoxes ==
    RESOLUTION_OPTIONS
        \cup { <<0, 0>>, <<1, 6>>, <<2, 2>>, <<3, 12>>, <<1281, 721>>,
               <<4096, 2200>> }

AdaptMode == { "None", "CropHeight", "CropWidth", "CropBoth", "Downscale" }

\* the FrameScaler struct
FrameScaler(sw, sh, dw, dh, mode) ==
    [ src_width |-> sw, src_height |-> sh, dst_width |-> dw,
      dst_height |-> dh, needs_scaling |-> (dw # sw \/ dh # sh),
      mode |-> mode ]

\* FrameScaler::new without the crop to the encoder maximum
NewWithoutCrop(src_width, src_height) ==
    FrameScaler(src_width, src_height, Even(src_width), Even(src_height),
                "None")

\* FrameScaler::new: crop to the encoder maximum
new(src_width, src_height) ==
    LET width_exceeds == src_width > OPENH264_MAX_WIDTH
        height_exceeds == src_height > OPENH264_MAX_HEIGHT
    IN  CASE ~width_exceeds /\ ~height_exceeds ->
                FrameScaler(src_width, src_height, Even(src_width),
                            Even(src_height), "None")
          [] ~width_exceeds /\ height_exceeds ->
                FrameScaler(src_width, src_height, Even(src_width),
                            Even(OPENH264_MAX_HEIGHT), "CropHeight")
          [] width_exceeds /\ ~height_exceeds ->
                FrameScaler(src_width, src_height, Even(OPENH264_MAX_WIDTH),
                            Even(src_height), "CropWidth")
          [] width_exceeds /\ height_exceeds ->
                FrameScaler(src_width, src_height, Even(OPENH264_MAX_WIDTH),
                            Even(OPENH264_MAX_HEIGHT), "CropBoth")

(***************************************************************************)
(* The f64 arithmetic of new_with_target, computed exactly in integers.    *)
(* For 0 < a < b < 2^13 the quotient a as f64 / b as f64 is the double     *)
(* q = M * 2^-(z+52): z is the place of the first 1 in the binary          *)
(* expansion of a/b and M is floor(a * 2^(z+52) / b), one more when        *)
(* round-to-nearest-even rounds up.                                        *)
(***************************************************************************)
\* (a * 2^i) mod b: the remainder after i places of the long division a / b
RECURSIVE Rem(_, _, _)
Rem(a, b, i) == IF i = 0 THEN a % b ELSE (2 * Rem(a, b, i - 1)) % b

\* the i-th binary place of a / b
QuotientBit(a, b, i) == (2 * Rem(a, b, i - 1)) \div b

\* floor(log2(k)), k >= 1
Log2(k) == CHOOSE e \in 0..30 : 2 ^ e <= k /\ (e = 30 \/ k < 2 ^ (e + 1))

\* the place of the first 1 of a / b, 0 < a < b
FirstPlace(a, b) == CHOOSE z \in 1..30 : a * 2 ^ z >= b /\ a * 2 ^ (z - 1) < b

\* the division rounded the 53-bit significand up
RoundedUp(a, b) ==
    LET z == FirstPlace(a, b)
        rho == Rem(a, b, z + 52)
    IN  /\ (2 * rho) \div b = 1
        /\ ((2 * rho) % b # 0 \/ QuotientBit(a, b, z + 52) = 1)

(***************************************************************************)
(* ((c as f64) * (a as f64 / b as f64)) as u32 for 0 < a < b.  With        *)
(* c * a = K * b + s: the product is within 2^-40 of c * a / b, so when    *)
(* s # 0 it truncates to K.  When s = 0 the product is K unless the        *)
(* quotient was rounded down (rho # 0): then it is K less                  *)
(* c * rho / (b * 2^(z+52)), which the multiplication rounds back to K     *)
(* exactly when that is at most half the spacing 2^(E-52) of the doubles   *)
(* below K, and truncates to K - 1 otherwise.                              *)
(***************************************************************************)
mul_trunc(c, a, b) ==
    LET K == (c * a) \div b
        s == (c * a) % b
        z == FirstPlace(a, b)
        rho == Rem(a, b, z + 52)
        E == IF 2 ^ Log2(K) = K THEN Log2(K) - 1 ELSE Log2(K)
        t == z + E - 1
    IN  IF s # 0 \/ c = 0 THEN K
        ELSE IF rho = 0 \/ RoundedUp(a, b) THEN K
        ELSE IF (IF t >= 0 THEN c * rho <= b * 2 ^ t
                           ELSE c * rho * 2 ^ (0 - t) <= b)
             THEN K ELSE K - 1

\* (src as f64 * scale) as u32 where scale is (a as f64 / b as f64).min(1.0)
times_scale(src, a, b) ==
    IF a >= b THEN src ELSE IF a = 0 THEN 0 ELSE mul_trunc(src, a, b)

\* FrameScaler::new_with_target: fit the source inside the target box.
\* scale_w.min(scale_h) is the quotient of the smaller ratio (the division
\* is monotonic); a ratio 0/0 is NaN, which f64::min passes over.
FrameScaler_new_with_target(src_width, src_height, target_width, target_height) ==
    LET max_w == Min(Min(target_width, src_width), OPENH264_MAX_WIDTH)
        max_h == Min(Min(target_height, src_height), OPENH264_MAX_HEIGHT)
        byWidth == /\ src_width # 0
                   /\ (src_height = 0 \/ max_w * src_height <= max_h * src_width)
        a == IF byWidth THEN max_w ELSE max_h
        b == IF byWidth THEN src_width ELSE src_height
        dst_width == Even(times_scale(src_width, a, b))
        dst_height == Even(times_scale(src_height, a, b))
    IN  FrameScaler(src_width, src_height, dst_width, dst_height,
                    IF dst_width # src_width \/ dst_height # src_height
                    THEN "Downscale" ELSE "None")

(***************************************************************************)
(* FrameScaler::scale on an input of n bytes: how many bytes it returns    *)
(* and whether they are borrowed from the input.  None hands the input     *)
(* back, CropHeight a prefix of it; crop_width, crop_both and              *)
(* downscale_nearest fill a vector they allocate.                          *)
(***************************************************************************)
crop_width(s) == (s.dst_width * 4) * s.src_height
crop_both(s) == (s.dst_width * 4) * s.dst_height
downscale_nearest(s) == (s.dst_width * 4) * s.dst_height

scale(s, n) ==
    CASE s.mode = "None" -> [ borrowed |-> TRUE, len |-> n ]
      [] s.mode = "CropHeight" ->
            [ borrowed |-> TRUE, len |-> (s.src_width * 4) * s.dst_height ]
      [] s.mode = "CropWidth" -> [ borrowed |-> FALSE, len |-> crop_width(s) ]
      [] s.mode = "CropBoth" -> [ borrowed |-> FALSE, len |-> crop_both(s) ]
      [] s.mode = "Downscale" ->
            [ borrowed |-> FALSE, len |-> downscale_nearest(s) ]

\* FrameScaler::new(src_width, src_height)
S_New ==
    /\ fsKind = "new"
    /\ built = <<>>
    /\ built' = <<new(fsInput[1], fsInput[2])>>
    /\ UNCHANGED <<fsKind, fsInput, scaled>>
    /\ UNCHANGED notScaler

\* FrameScaler::new_with_target(src_width, src_height, target_width, target_height)
S_NewWithTarget ==
    /\ fsKind = "target"
    /\ built = <<>>
    /\ built' = <<FrameScaler_new_with_target(fsInput[1], fsInput[2],
                                           fsInput[3], fsInput[4])>>
    /\ UNCHANGED <<fsKind, fsInput, scaled>>
    /\ UNCHANGED notScaler

\* scaler.scale(bgra) on a frame of src_width * src_height * 4 bytes
S_Scale ==
    /\ built # <<>>
    /\ scaled = <<>>
    /\ scaled' = <<scale(built[1], built[1].src_width * built[1].src_height * 4)>>
    /\ UNCHANGED <<fsKind, fsInput, built>>
    /\ UNCHANGED notScaler

NextScaler == S_New \/ S_NewWithTarget \/ S_Scale

InitScaler ==
    /\ fsKind \in { "new", "target" }
    /\ fsInput \in { <<w, h, t[1], t[2]>> :
                        w \in SrcWidths, h \in SrcHeights, t \in TargetBoxes }
    /\ fsKind = "new" => <<fsInput[3], fsInput[4]>> = <<0, 0>>
    /\ built = <<>>
    /\ scaled = <<>>

InitF == InitScaler /\ SharerOff /\ ViewerOff /\ InitNet /\ CodecOff /\ TimeOff /\ CloseOff /\ EncoderOff /\ LanOff /\ RegOff /\ SvcOff /\ RenderOff /\ XferOff

SpecScaler == InitF /\ [][NextScaler]_vars

\* C16: every FrameScaler built by new or new_with_target, whatever the
\* source dimensions, has even dst_width and dst_height with
\* dst_width <= 3840 and dst_height <= 2160.
C16_DstEvenWithinMax ==
    built # <<>> =>
        /\ built[1].dst_width % 2 = 0
        /\ built[1].dst_height % 2 = 0
        /\ built[1].dst_width <= 3840
        /\ built[1].dst_height <= 2160

\* an odd source beyond the encoder maximum on both axes was given to new,
\* and an odd one to new_with_target with a box that downscales it
C16_Witness ==
    /\ built # <<>>
    /\ built[1].src_width % 2 = 1
    /\ built[1].src_height % 2 = 1
    /\ \/ built[1].mode = "CropBoth"
       \/ built[1].mode = "Downscale" /\ built[1].src_width > OPENH264_MAX_WIDTH


\* the crop mode that names exactly the axes on which dst differs from src
AxesMode(s) ==
    LET width_differs == s.dst_width # s.src_width
        height_differs == s.dst_height # s.src_height
    IN  CASE ~width_differs /\ ~height_differs -> "None"
          [] ~width_differs /\ height_differs -> "CropHeight"
          [] width_differs /\ ~height_differs -> "CropWidth"
          [] width_differs /\ height_differs -> "CropBoth"

\* C17: the mode follows the axes that change.  new(3840, 2160) needs no
\* scaling; new(4096, 2160) gives dst (3840, 2160) with CropWidth;
\* new(3457, 2169) gives the even-clamped dst with CropBoth;
\* new_with_target(3456, 2160, 1280, 720) gives (1152, 720) with Downscale;
\* and for every scaler new builds, the crop mode names exactly the axes on
\* which dst differs from src.
C17_ModeNamesAxes ==
    built # <<>> =>
        LET s == built[1]
            src == <<s.src_width, s.src_height>>
            dst == <<s.dst_width, s.dst_height>>
        IN  /\ fsKind = "new" => s.mode = AxesMode(s)
            /\ fsKind = "new" /\ src = <<3840, 2160>> =>
                   ~s.needs_scaling /\ s.mode = "None"
            /\ fsKind = "new" /\ src = <<4096, 2160>> =>
                   dst = <<3840, 2160>> /\ s.mode = "CropWidth"
            /\ fsKind = "new" /\ src = <<3457, 2169>> =>
                   dst = <<3456, 2160>> /\ s.mode = "CropBoth"
            /\ fsKind = "target" /\ fsInput = <<3456, 2160, 1280, 720>> =>
                   dst = <<1152, 720>> /\ s.mode = "Downscale"


\* C18: for every FrameScaler and every BGRA input of
\* src_width * src_height * 4 bytes, scale() returns exactly
\* dst_width * dst_height * 4 bytes, in every adaptation mode.
C18_ScaleReturnsDstSize ==
    scaled # <<>> =>
        scaled[1].len = built[1].dst_width * built[1].dst_height * 4


(***************************************************************************)
(* The software encoder (encoder/software.rs).                             *)
(***************************************************************************)
\* encode() calls in one run
MaxEncodes == 2

\* an Annex-B start code of 3 or 4 bytes
StartCode(n) == IF n = 4 THEN <<0, 0, 0, 1>> ELSE <<0, 0, 1>>

\* one NAL unit: start code, header byte (nal_ref_idc, nal_unit_type), payload
Nal(startLen, ref_idc, type, payload) ==
    StartCode(startLen) \o <<ref_idc * 32 + type>> \o payload

\* slice payloads; the second holds bytes that read as IDR and SPS headers
SlicePayloads == { <<136, 132>>, <<101, 103>> }

(***************************************************************************)
(* What encoder.encode(&yuv_buffer) hands back as bitstream.to_vec(): the  *)
(* NAL units of one access unit.  An IDR access unit is SPS, PPS and one   *)
(* or two IDR slices; any other access unit is one or two non-IDR slices;  *)
(* a frame the encoder drops is the empty stream.                          *)
(***************************************************************************)
IdrUnits ==
    { Nal(n, 3, 7, <<66, 192>>) \o Nal(n, 3, 8, <<206>>) \o Nal(n, r, 5, p)
        \o (IF two THEN Nal(n, r, 5, p) ELSE <<>>) :
        n \in {3, 4}, r \in {1, 3}, p \in SlicePayloads, two \in BOOLEAN }

NonIdrUnits ==
    { Nal(n, r, 1, p) \o (IF two THEN Nal(n, r, 1, p) ELSE <<>>) :
        n \in {3, 4}, r \in {0, 2}, p \in SlicePayloads, two \in BOOLEAN }

AccessUnits == IdrUnits \cup NonIdrUnits \cup { <<>> }

\* SoftwareEncoder::is_keyframe with the test for SPS left out
IsKeyframeIdrOnly(data) ==
    IF Len(data) < 5 THEN FALSE
    ELSE LET offset ==
                 IF Len(data) > 4 /\ data[1] = 0 /\ data[2] = 0
                 THEN IF data[3] = 0 /\ data[4] = 1 THEN 4
                      ELSE IF data[3] = 1 THEN 3 ELSE 0
                 ELSE 0
         IN  IF offset < Len(data)
             THEN LET nal_type == data[offset + 1] % 32
                  IN  nal_type = 5
             ELSE FALSE

\* SoftwareEncoder::is_keyframe: the type of the NAL unit behind the leading
\* start code is 5 or 7 (data[offset] & 0x1F)
is_keyframe(data) ==
    IF Len(data) < 5 THEN FALSE
    ELSE LET offset ==
                 IF Len(data) > 4 /\ data[1] = 0 /\ data[2] = 0
                 THEN IF data[3] = 0 /\ data[4] = 1 THEN 4
                      ELSE IF data[3] = 1 THEN 3 ELSE 0
                 ELSE 0
         IN  IF offset < Len(data)
             THEN LET nal_type == data[offset + 1] % 32
                  IN  nal_type = 5 \/ nal_type = 7
             ELSE FALSE

\* SoftwareEncoder::request_keyframe
request_keyframe ==
    /\ frame_count >= 0
    /\ Len(emitted) < MaxEncodes
    /\ ~force_keyframe
    /\ force_keyframe' = TRUE
    /\ elast' = [op |-> "request_keyframe", forced |-> force_keyframe,
                 res |-> "none"]
    /\ UNCHANGED <<frame_count, emitted>>
    /\ UNCHANGED notEncoder

\* SoftwareEncoder::encode returning Ok: a forced intra frame is an IDR
\* access unit; the frame type comes from is_keyframe
E_Encode ==
    /\ Len(emitted) < MaxEncodes
    /\ \E encoded_data \in (IF force_keyframe THEN IdrUnits ELSE AccessUnits) :
          emitted' = Append(emitted,
                        [ data |-> encoded_data,
                          frame_type |-> IF is_keyframe(encoded_data)
                                         THEN "KeyFrame" ELSE "Delta",
                          size |-> Len(encoded_data) ])
    /\ force_keyframe' = FALSE
    /\ frame_count' = frame_count + 1
    /\ elast' = [op |-> "encode", forced |-> force_keyframe,
                 res |-> emitted'[Len(emitted')].frame_type]
    /\ UNCHANGED notEncoder

\* SoftwareEncoder::encode returning Err("Encode failed"): the request for a
\* keyframe is already consumed
E_EncodeFails ==
    /\ Len(emitted) < MaxEncodes
    /\ force_keyframe
    /\ force_keyframe' = FALSE
    /\ elast' = [op |-> "encode", forced |-> force_keyframe, res |-> "Err"]
    /\ UNCHANGED <<frame_count, emitted>>
    /\ UNCHANGED notEncoder

NextEncoder == request_keyframe \/ E_Encode \/ E_EncodeFails

\* after init: no frame encoded, no keyframe requested
InitEncoder ==
    /\ force_keyframe = FALSE
    /\ frame_count = 0
    /\ emitted = <<>>
    /\ elast = NoCall

InitE == InitEncoder /\ SharerOff /\ ViewerOff /\ InitNet /\ CodecOff /\ TimeOff /\ CloseOff /\ ScalerOff /\ LanOff /\ RegOff /\ SvcOff /\ RenderOff /\ XferOff

SpecEncoder == InitE /\ [][NextEncoder]_vars

\* the Annex-B stream holds a NAL unit of type 5 or 7: a start code 0 0 1
\* followed by a header byte of that type
ContainsIdrOrSps(data) ==
    \E i \in 1..Len(data) :
        /\ i + 3 <= Len(data)
        /\ data[i] = 0 /\ data[i + 1] = 0 /\ data[i + 2] = 1
        /\ data[i + 3] % 32 \in {5, 7}

FirstOctets == { 0, 9, 10, 11, 100, 127, 169, 172, 192, 198, 255 }
\* third and fourth octets
LowOctets == { 0, 1, 255 }

\* is_real_lan_ip with the 172.16.0.0/12 test written 16..31
IsRealLanIpShortRange(ip) ==
    IF ip[1] = "V4"
    THEN LET octets == [i \in 0..3 |-> ip[i + 2]]
         IN  IF octets[0] = 198 /\ (octets[1] = 18 \/ octets[1] = 19)
                 THEN FALSE
             ELSE IF octets[0] = 100 /\ octets[1] - (octets[1] % 64) = 64
                 THEN FALSE
             ELSE IF octets[0] = 10 THEN TRUE
             ELSE IF octets[0] = 172 /\ octets[1] \in 16..30 THEN TRUE
             ELSE IF octets[0] = 192 /\ octets[1] = 168 THEN TRUE
             ELSE IF octets[0] = 169 /\ octets[1] = 254 THEN TRUE
             ELSE FALSE
    ELSE FALSE

\* is_real_lan_ip; octets[1] & 0xC0 is octets[1] less its low six bits
is_real_lan_ip(ip) ==
    IF ip[1] = "V4"
    THEN LET octets == [i \in 0..3 |-> ip[i + 2]]
         IN  IF octets[0] = 198 /\ (octets[1] = 18 \/ octets[1] = 19)
                 THEN FALSE
             ELSE IF octets[0] = 100 /\ octets[1] - (octets[1] % 64) = 64
                 THEN FALSE
             ELSE IF octets[0] = 10 THEN TRUE
             ELSE IF octets[0] = 172 /\ octets[1] \in 16..31 THEN TRUE
             ELSE IF octets[0] = 192 /\ octets[1] = 168 THEN TRUE
             ELSE IF octets[0] = 169 /\ octets[1] = 254 THEN TRUE
             ELSE FALSE
    ELSE FALSE

\* is_real_lan_ip(&addr)
L_Check ==
    /\ verdict = <<>>
    /\ verdict' = <<is_real_lan_ip(addr)>>
    /\ UNCHANGED addr
    /\ UNCHANGED notLan

NextLan == L_Check

InitLan ==
    /\ addr \in { <<"V6">> }
                  \cup { <<"V4", a, b, c, d>> :
                            a \in FirstOctets, b \in 0..255,
                            c \in LowOctets, d \in LowOctets }
    /\ verdict = <<>>

InitL == InitLan /\ SharerOff /\ ViewerOff /\ InitNet /\ CodecOff /\ TimeOff /\ CloseOff /\ ScalerOff /\ EncoderOff /\ RegOff /\ SvcOff /\ RenderOff /\ XferOff

SpecLan == InitL /\ [][NextLan]_vars

\* the IPv4 address lies in the network base/len, len <= 16, base given by
\* its first two octets
InNet(ip, a, b, len) ==
    /\ ip[1] = "V4"
    /\ (ip[2] * 256 + ip[3]) \div 2 ^ (16 - len)
           = (a * 256 + b) \div 2 ^ (16 - len)

\* C20: is_real_lan_ip returns false for every IPv4 address in
\* 198.18.0.0/15 and in 100.64.0.0/10, and true for every IPv4 address in
\* 10.0.0.0/8, 172.16.0.0/12, 192.168.0.0/16 and 169.254.0.0/16.
C20_LanRanges ==
    verdict # <<>> =>
        /\ (InNet(addr, 198, 18, 15) \/ InNet(addr, 100, 64, 10))
               => verdict[1] = FALSE
        /\ ( InNet(addr, 10, 0, 8) \/ InNet(addr, 172, 16, 12)
               \/ InNet(addr, 192, 168, 16) \/ InNet(addr, 169, 254, 16) )
               => verdict[1] = TRUE

\* the last address of 172.16.0.0/12 was accepted
C20_Witness ==
    /\ verdict = <<TRUE>>
    /\ addr = <<"V4", 172, 31, 255, 255>>


(***************************************************************************)
(* Further properties of the viewer's handler (SpecViewer).                *)
(***************************************************************************)
\* C21: every StreamStart the sharer sends is processed by the viewer: each
\* StreamFrame that is decoded is decoded by a decoder initialised for the
\* width and height of the StreamStart sent last before that frame.
C21_StartReinitialisesDecoder ==
    \A n \in 1..Len(batches) :
        batches[n].run =>
            \A j \in 1..Len(batches[n].pics) : batches[n].pics[j] = batches[n].dec


(***************************************************************************)
(* Further properties of the sharer's frame loop (SpecSharer).             *)
(***************************************************************************)
\* the payload handed to send_framed last on the task's stream
LastSent(t) == log[t][Len(log[t])]

\* C22: a frame loop that read a ResolutionRequest at the top of a turn has,
\* before it sends the next StreamFrame, sent a new StreamStart with the
\* dimensions of the scaler rebuilt for the request, and its frame counter
\* is 0.
C22_RequestAnsweredByStart ==
    \A t \in Tasks :
        (pc[t] = "tick" /\ req_data[t] # NoDims) =>
            /\ scaler[t] = new_with_target(display, req_data[t])
            /\ log[t] # <<>>
            /\ LastSent(t) = StartMsg(scaler[t], TRUE)
            /\ sequence[t] = 0

\* the dimensions of the StreamStart sent last on the task's stream
LastStartDims(t) ==
    LET S == {i \in 1..Len(log[t]) : log[t][i].k = "Start"}
    IN  IF S = {} THEN NoDims
        ELSE log[t][CHOOSE i \in S : \A j \in S : j <= i].dims

\* C23: at every encode in the frame loop, the scaler's output dimensions
\* equal the dimensions the current encoder was initialised with and the
\* dimensions of the StreamStart sent last.
C23_ScalerEncoderStartAgree ==
    \A t \in Tasks :
        pc[t] = "tick" =>
            /\ scaler[t] = enc[t]
            /\ enc[t] = LastStartDims(t)


\* C24: whenever the sharer is marked active and no per-viewer loop is
\* running, the SharerState is stored in SHARER_STATE, available to the next
\* viewer request.
C24_ActiveMeansStateStored ==
    (active /\ \A t \in Tasks : ~InLoop(t)) => sharerState # 0

(***************************************************************************)
(* Stopping the sharer while frame loops run (simple_streaming/mod.rs      *)
(* 237-242, 366-404).  Each spawned handle_viewer_request task is          *)
(* scheduled by the runtime whenever it can continue, which is weak        *)
(* fairness of its own steps; an await on send_framed continues only when  *)
(* the send returns.  Nothing is assumed of the user's commands or of the  *)
(* viewers.                                                                *)
(***************************************************************************)
InitStop == InitSharer /\ display = <<1920, 1080>> /\ ViewerOff /\ InitNet /\ CodecOff /\ TimeOff /\ CloseOff /\ ScalerOff /\ EncoderOff /\ LanOff /\ RegOff /\ SvcOff /\ RenderOff /\ XferOff

NextStop ==
    \/ StartSharing
    \/ \E s \in Sessions : StoreState(s)
    \/ StopSharing
    \/ \E t \in Tasks, live \in BOOLEAN : HVR_Begin(t, live)
    \/ \E t \in Tasks : HVR_Take(t)
    \/ \E t \in Tasks : HVR_Check(t, TRUE)
    \/ \E t \in Tasks, encoded \in {"error", "empty", "data"} : HVR_Frame(t, encoded)
    \/ \E t \in Tasks : HVR_SendDone(t)
    \/ \E t \in Tasks : HVR_Exit(t)
    \/ \E t \in Tasks : ViewerGone(t)
    \/ \E t \in Tasks : ViewerStalls(t)

FairStop ==
    \A t \in Tasks :
        /\ WF_vars(HVR_Take(t))
        /\ WF_vars(HVR_Check(t, TRUE))
        /\ WF_vars(\E encoded \in {"error", "empty", "data"} : HVR_Frame(t, encoded))
        /\ WF_vars(HVR_SendDone(t))
        /\ WF_vars(HVR_Exit(t))

SpecStop == InitStop /\ [][NextStop]_vars /\ FairStop

\* stop_sharing() was the last command to return
StopReturned == cmds # <<>> /\ cmds[Len(cmds)] = "stop"

\* the task has left the frame loop and has handed StreamStop to send_framed
LeftWithStop(t) ==
    pc[t] = "done" /\ log[t] # <<>> /\ log[t][Len(log[t])].k = "Stop"

\* C25: after stop_sharing() has returned, every per-viewer frame loop that is
\* running eventually leaves the loop and sends StreamStop, whatever it is doing
\* at that moment: sleeping, capturing, or awaiting a frame send to a viewer
\* that has stopped reading.
C25_StopEndsEveryLoop ==
    \A t \in Tasks : (StopReturned /\ InLoop(t)) ~> LeftWithStop(t)

\* the same, for loops whose viewer keeps reading or has closed the stream
C25_StopEndsLoopOfReadingViewer ==
    \A t \in Tasks :
        (StopReturned /\ InLoop(t)) ~> (LeftWithStop(t) \/ ~SendReturns(t))

\* the decode calls of the stream task that returned an error
ErrCalls == {i \in 1..Len(results) : results[i].res.kind = "Err"}

\* C26: once a decode of the bytes of a control stream has failed with a
\* protocol error, the stream task reads nothing more from that stream and
\* hands no later message of it to handle_message.
C26_NoDispatchAfterProtocolError ==
    cmode = "handler" =>
        \A i \in ErrCalls : \A j \in (i + 1)..Len(results) :
            /\ results[j].fed = results[i].fed
            /\ results[j].res.kind # "Some"

\* the bytes of b from position k on could be the start of a message: they
\* begin with MAGIC, or they are its first byte alone at the end of b
CouldStartMessage(b, k) ==
    \/ k < Len(b) /\ SubSeq(b, k, k + 1) = MAGIC
    \/ k = Len(b) /\ b[k] = MAGIC[1]

\* a holds the bytes of b from position k on, unchanged, at its end
KeptFrom(b, a, k) ==
    /\ Len(a) >= Len(b) - k + 1
    /\ Len(a) <= Len(b)
    /\ a = Drop(b, Len(b) - Len(a))

\* the decode calls that met a buffer of at least a header not starting with MAGIC
MismatchCalls ==
    {i \in 1..Len(results) :
        /\ Len(results[i].before) >= HEADER_SIZE
        /\ Take(results[i].before, 2) # MAGIC}

\* C27: a MessageCodec::decode call that reports a magic mismatch leaves the
\* buffer empty or beginning with MAGIC, and keeps, unchanged, every byte from
\* the first byte on that could start a valid later message.
C27_ResyncKeepsMessageStart ==
    \A i \in MismatchCalls :
        /\ results[i].res.kind = "Err"
        /\ \/ results[i].after = <<>>
           \/ Len(results[i].after) >= 2 /\ Take(results[i].after, 2) = MAGIC
        /\ \A k \in 1..Len(results[i].before) :
              CouldStartMessage(results[i].before, k)
                  => KeptFrom(results[i].before, results[i].after, k)

\* the same for the occurrences of both MAGIC bytes only
C27_ResyncKeepsFullMagic ==
    \A i \in MismatchCalls :
        /\ results[i].res.kind = "Err"
        /\ \/ results[i].after = <<>>
           \/ Len(results[i].after) >= 2 /\ Take(results[i].after, 2) = MAGIC
        /\ \A k \in 1..(Len(results[i].before) - 1) :
              CouldStartMessage(results[i].before, k)
                  => KeptFrom(results[i].before, results[i].after, k)

\* C28: every frame that decode accepts is returned as the message variant
\* its TYPE byte names: a frame whose TYPE byte names one kind and whose
\* payload serialises another is not delivered as that other kind.
C28_VariantIsTypeByte ==
    (cmode = "frame" /\ rt # <<>> /\ rt[1].ok)
        => message_type(rt[1].msg) = Head(payloads)[4]

\* C29: is_simple_message, applied by the stream task to the first payload
\* of a stream, is true for every media payload (StreamStart, StreamFrame,
\* StreamStop, ResolutionRequest) and false for every payload that the
\* encoder of control messages produced.
C29_SimpleIffMediaPayload ==
    (cmode = "handler" /\ first_data # <<>>) =>
        /\ first_data[1] \in MediaPayloads => hpc = "simple"
        /\ (\E m \in Messages : first_data[1] = encode(m).bytes) => hpc # "simple"

\* the stream task has taken a ResolutionRequest for a media payload
C29_Witness ==
    /\ cmode = "handler"
    /\ first_data = << encode_resolution_request(1920, 1080, 4000000) >>
    /\ hpc = "simple"

\* the stream task has taken an encoded ChatMessage for a control payload
C29_WitnessControl ==
    /\ cmode = "handler"
    /\ cmsg.type = "ChatMessage"
    /\ first_data = << encode(cmsg).bytes >>
    /\ hpc = "closed"

\* C30: when the stream open of a send_to_peer call did not complete within
\* its timeout, the call has returned an error and the registry no longer
\* holds the connection, so that a later send to that peer does not find it.
C30_TimeoutRemovesConnection ==
    (stp.pc = "idle" /\ stp.result = "timeout")
        => \A k \in Keys : registry[k] # stp.conn


(***************************************************************************)
(* The device registry DEVICES (network/discovery.rs) and the connection   *)
(* registry CONNECTIONS (network/quic.rs) of one node, with the operations *)
(* that write them. A device is <<>> (absent) or <<record>>; its port is   *)
(* the port kind of the key that format!("{}:{}", ip, port) builds: every  *)
(* peer listens on DEFAULT_PORT, and handle_message registers that port.   *)
(***************************************************************************)
Known == {d \in DeviceIds : DEVICES[d] # <<>>}
DevicesAt(devs, ip) == {d \in DeviceIds : devs[d] # <<>> /\ devs[d][1].ip = ip}

\* DiscoveredDevice as extract_device_info and the Handshake arm build it
NewDevice(ip) ==
    [ip |-> ip, port |-> "listen", is_sharing |-> FALSE, last_seen |-> nowMs]

\* find_connection(ip): the connections it can return, any key of that ip
\* (HashMap iteration order is not fixed)
FindConnection(conns, ip) == {conns[k] : k \in {x \in Keys : x[1] = ip /\ conns[x] # 0}}

Did(op, ip, id, conn, evs) ==
    last' = [op |-> op, ip |-> ip, id |-> id, conn |-> conn, events |-> evs,
             devs |-> DEVICES, conns |-> CONNECTIONS]

\* QuicConnection::new and the insert under remote_addr.to_string(); the
\* caller spawns handle_incoming_connection for it
R_New(k) ==
    /\ nQ < MaxQConns
    /\ nQ' = nQ + 1
    /\ qconn' = [qconn EXCEPT ![nQ + 1] =
                    [ip |-> k[1], closed |-> FALSE, handler |-> "running"]]
    /\ CONNECTIONS' = [CONNECTIONS EXCEPT ![k] = nQ + 1]

\* QuicEndpoint::connect to ip:DEFAULT_PORT
R_Connect(ip) ==
    /\ R_New(<<ip, "listen">>)
    /\ Did("connect", ip, "none", nQ + 1, {})
    /\ UNCHANGED <<DEVICES, nowMs>>
    /\ UNCHANGED notReg

\* the accept loop of start_server: the key holds the observed source port
R_Accept(ip, pk) ==
    /\ R_New(<<ip, pk>>)
    /\ Did("accept", ip, "none", nQ + 1, {})
    /\ UNCHANGED <<DEVICES, nowMs>>
    /\ UNCHANGED notReg

\* the transport gets a close reason (peer closed, idle timeout)
R_Closes(c) ==
    /\ c <= nQ
    /\ ~qconn[c].closed
    /\ qconn' = [qconn EXCEPT ![c].closed = TRUE]
    /\ Did("closes", qconn[c].ip, "none", c, {})
    /\ UNCHANGED <<DEVICES, CONNECTIONS, nQ, nowMs>>
    /\ UNCHANGED notReg

\* handle_incoming_connection after its accept_bi_stream loop broke
R_HandlerExit(c) ==
    /\ c <= nQ
    /\ qconn[c].handler = "running"
    /\ qconn[c].closed
    /\ qconn' = [qconn EXCEPT ![c].handler = "ended"]
    /\ DEVICES' = [d \in DeviceIds |->
                      IF d \in DevicesAt(DEVICES, qconn[c].ip) THEN <<>>
                      ELSE DEVICES[d]]
    /\ CONNECTIONS' = remove_connection_by_ip(CONNECTIONS, qconn[c].ip)
    /\ Did("handler_exit", qconn[c].ip, "none", c,
           {<<"device-removed", d>> : d \in DevicesAt(DEVICES, qconn[c].ip)})
    /\ UNCHANGED <<nQ, nowMs>>
    /\ UNCHANGED notReg

\* send_to_peer(ip, ..) when the connection find_connection returned is not
\* alive
R_SendToPeerDead(ip, found) ==
    /\ found \in FindConnection(CONNECTIONS, ip)
    /\ qconn[found].closed
    /\ CONNECTIONS' = remove_connection_by_ip(CONNECTIONS, ip)
    /\ Did("send_to_peer", ip, "none", found, {})
    /\ UNCHANGED <<DEVICES, qconn, nQ, nowMs>>
    /\ UNCHANGED notReg

\* handle_message, Handshake{device_id: id} on a stream of connection c
R_Handshake(c, id) ==
    /\ c <= nQ
    /\ qconn[c].handler = "running"
    /\ ~qconn[c].closed
    /\ DEVICES' = [DEVICES EXCEPT ![id] = <<NewDevice(qconn[c].ip)>>]
    /\ Did("handshake", qconn[c].ip, id, c,
           {<<"connection-received", id>>, <<"device-discovered", id>>})
    /\ UNCHANGED <<CONNECTIONS, qconn, nQ, nowMs>>
    /\ UNCHANGED notReg

\* update_device_sharing_by_ip: the first device of that ip that
\* values_mut() yields, any of them
update_device_sharing_by_ip(devs, ip, is_sharing) ==
    IF DevicesAt(devs, ip) = {} THEN {[devs |-> devs, id |-> "none"]}
    ELSE {[devs |-> [devs EXCEPT ![d] =
                        <<[devs[d][1] EXCEPT !.is_sharing = is_sharing,
                                             !.last_seen = nowMs]>>],
           id |-> d] : d \in DevicesAt(devs, ip)}

\* handle_message, ScreenOffer{displays} on a stream of connection c
R_ScreenOffer(c, nonEmpty) ==
    /\ c <= nQ
    /\ qconn[c].handler = "running"
    /\ ~qconn[c].closed
    /\ \E r \in update_device_sharing_by_ip(DEVICES, qconn[c].ip, nonEmpty) :
          /\ DEVICES' = r.devs
          /\ Did(IF nonEmpty THEN "offer" ELSE "offer_none", qconn[c].ip, r.id, c,
                 IF r.id = "none" THEN {}
                 ELSE {<<"sharing-status-changed", r.id>>})
    /\ UNCHANGED <<CONNECTIONS, qconn, nQ, nowMs>>
    /\ UNCHANGED notReg

\* handle_service_event, ServiceResolved of another node's service
R_Resolved(id, ip) ==
    /\ DEVICES' = [DEVICES EXCEPT ![id] = <<NewDevice(ip)>>]
    /\ Did("resolved", ip, id, 0, {<<"device-discovered", id>>})
    /\ UNCHANGED <<CONNECTIONS, qconn, nQ, nowMs>>
    /\ UNCHANGED notReg

\* handle_service_event, ServiceRemoved of a known device
R_Removed(id) ==
    /\ id \in Known
    /\ DEVICES' = [DEVICES EXCEPT ![id] = <<>>]
    /\ Did("removed", DEVICES[id][1].ip, id, 0, {<<"device-removed", id>>})
    /\ UNCHANGED <<CONNECTIONS, qconn, nQ, nowMs>>
    /\ UNCHANGED notReg

\* disconnect(Some(id)) of a known device: the connection under
\* ip:device.port is closed and removed, update_device_status stamps the
\* device
R_Disconnect(id) ==
    /\ id \in Known
    /\ \E k \in {<<DEVICES[id][1].ip, DEVICES[id][1].port>>} :
          /\ qconn' = [c \in QConns |->
                          IF CONNECTIONS[k] = c
                             THEN [qconn[c] EXCEPT !.closed = TRUE]
                             ELSE qconn[c]]
          /\ CONNECTIONS' = [CONNECTIONS EXCEPT ![k] = 0]
    /\ DEVICES' = [DEVICES EXCEPT ![id] =
                      <<[DEVICES[id][1] EXCEPT !.last_seen = nowMs]>>]
    /\ Did("disconnect", DEVICES[id][1].ip, id, 0, {})
    /\ UNCHANGED <<nQ, nowMs>>
    /\ UNCHANGED notReg

\* now_ms() advances
R_Tick ==
    /\ nowMs < MaxNowMs
    /\ nowMs' = nowMs + 1
    /\ Did("tick", "none", "none", 0, {})
    /\ UNCHANGED <<DEVICES, CONNECTIONS, qconn, nQ>>
    /\ UNCHANGED notReg

NextReg ==
    \/ \E ip \in Peers : R_Connect(ip)
    \/ \E ip \in Peers, pk \in PortKinds : R_Accept(ip, pk)
    \/ \E c \in QConns : R_Closes(c)
    \/ \E c \in QConns : R_HandlerExit(c)
    \/ \E ip \in Peers, found \in QConns : R_SendToPeerDead(ip, found)
    \/ \E c \in QConns, id \in DeviceIds : R_Handshake(c, id)
    \/ \E c \in QConns, nonEmpty \in BOOLEAN : R_ScreenOffer(c, nonEmpty)
    \/ \E id \in DeviceIds, ip \in Peers : R_Resolved(id, ip)
    \/ \E id \in DeviceIds : R_Removed(id)
    \/ \E id \in DeviceIds : R_Disconnect(id)
    \/ R_Tick

InitR == RegOff /\ SharerOff /\ ViewerOff /\ InitNet /\ CodecOff /\ TimeOff /\ CloseOff /\ ScalerOff /\ EncoderOff /\ LanOff /\ SvcOff /\ RenderOff /\ XferOff

SpecReg == InitR /\ [][NextReg]_vars

(***************************************************************************)
(* C31: when the accept loop of a connection has ended, no device of the   *)
(* peer's ip is left in the device registry, device-removed was emitted    *)
(* for each device that had that ip, and no key of that ip is left in the  *)
(* connection registry.                                                    *)
(***************************************************************************)
C31_HandlerExitCleansPeer ==
    (last.op = "handler_exit") =>
        /\ DevicesAt(DEVICES, last.ip) = {}
        /\ \A d \in DevicesAt(last.devs, last.ip) :
              <<"device-removed", d>> \in last.events
        /\ \A k \in Keys : (k[1] = last.ip) => CONNECTIONS[k] = 0

\* the loop of an accepted connection ended while a device of its peer was
\* known and the connection was registered under the source port
C31_Witness ==
    /\ last.op = "handler_exit"
    /\ DevicesAt(last.devs, last.ip) # {}
    /\ last.conns[<<last.ip, "ephemeral">>] = last.conn

(***************************************************************************)
(* C32: the teardown of a connection that has ended (the exit of its       *)
(* handler, or the pruning send_to_peer does for a dead connection) leaves *)
(* every other connection to the same peer that is still alive in the      *)
(* connection registry, and leaves the peer's devices registered while     *)
(* such a connection exists.                                               *)
(***************************************************************************)
LiveOthers(conns, c, ip) ==
    {k \in Keys : /\ k[1] = ip
                  /\ conns[k] \notin {0, c}
                  /\ ~qconn[conns[k]].closed}

C32_TeardownKeepsLiveConnection ==
    (last.op \in {"handler_exit", "send_to_peer"}) =>
        /\ \A k \in LiveOthers(last.conns, last.conn, last.ip) :
              CONNECTIONS[k] = last.conns[k]
        /\ (LiveOthers(last.conns, last.conn, last.ip) # {})
              => \A d \in DevicesAt(last.devs, last.ip) : DEVICES[d] = last.devs[d]

(***************************************************************************)
(* C33: after disconnect(Some(device_id)) of a known device every          *)
(* connection that was registered under a key of the device's ip is closed *)
(* and find_connection(device.ip) finds nothing.                           *)
(***************************************************************************)
C33_DisconnectRemovesEveryConnection ==
    (last.op = "disconnect") =>
        /\ FindConnection(CONNECTIONS, last.ip) = {}
        /\ \A c \in FindConnection(last.conns, last.ip) : qconn[c].closed

(***************************************************************************)
(* C34: after a ScreenOffer{displays} from a peer, every registered device *)
(* with the peer's ip has is_sharing = (displays is not empty) and its     *)
(* other fields as before, and every other device is as before; with no    *)
(* device of that ip the registry is as before.                            *)
(***************************************************************************)
Offered == last.op \in {"offer", "offer_none"}

C34_OfferSetsSharingOnly ==
    Offered =>
        \A d \in DeviceIds :
            IF d \in DevicesAt(last.devs, last.ip)
               THEN DEVICES[d] = <<[last.devs[d][1] EXCEPT
                                       !.is_sharing = (last.op = "offer")]>>
               ELSE DEVICES[d] = last.devs[d]

(***************************************************************************)
(* C35: the is_sharing flag of a device that stays registered changes only *)
(* in the processing of a ScreenOffer from the device's ip; a resolution   *)
(* of its mDNS service or a Handshake with its id leaves the flag as it    *)
(* was.                                                                    *)
(***************************************************************************)
SharingChanged(d) ==
    /\ last.devs[d] # <<>>
    /\ DEVICES[d] # <<>>
    /\ last.devs[d][1].is_sharing # DEVICES[d][1].is_sharing

C35_SharingChangesOnlyByOffer ==
    \A d \in DeviceIds :
        SharingChanged(d) => (Offered /\ last.ip = DEVICES[d][1].ip)


(***************************************************************************)
(* start_service and stop_service (commands/mod.rs), called from several   *)
(* tasks. A call takes one step per access to shared state: the read of    *)
(* SERVICE_RUNNING, QuicEndpoint::new (the bind of 0.0.0.0:DEFAULT_PORT),  *)
(* the set of the cell with start_server, the write of SERVICE_RUNNING.    *)
(***************************************************************************)
\* an endpoint socket with address reuse
PortShared(bound) == TRUE

\* Endpoint::server binds a UDP socket to the port without any address
\* reuse option: the bind succeeds only while no endpoint holds the port
PortFree(bound) == bound = {}

\* OnceCell::set: the value is stored when the cell is empty, else refused
OnceCellSet(cell, v) == IF cell = 0 THEN v ELSE cell

\* the read of SERVICE_RUNNING at the entry of start_service; when it is
\* false the discovery task is spawned
SC_Check(t) ==
    /\ sc[t].pc = "idle"
    /\ nStarts < MaxStartCalls
    /\ nStarts' = nStarts + 1
    /\ IF SERVICE_RUNNING
          THEN /\ sc' = [sc EXCEPT ![t] = [pc |-> "idle", sawRunning |-> TRUE,
                                           ep |-> 0, ret |-> "Ok"]]
               /\ UNCHANGED discoveries
          ELSE /\ sc' = [sc EXCEPT ![t] = [pc |-> "new", sawRunning |-> FALSE,
                                           ep |-> 0, ret |-> "none"]]
               /\ discoveries' = discoveries + 1
    /\ UNCHANGED <<SERVICE_RUNNING, QUIC_ENDPOINT, cellSets, endpoints,
                   acceptLoops, nSvcStops>>
    /\ UNCHANGED notSvc

\* QuicEndpoint::new(QuicConfig::default()): it can fail for any reason and
\* succeeds only if the port can be bound; on Err the call returns Err
SC_New(t, ok) ==
    /\ sc[t].pc = "new"
    /\ ok => PortFree(endpoints)
    /\ IF ok
          THEN /\ endpoints' = endpoints \cup {Cardinality(endpoints) + 1}
               /\ sc' = [sc EXCEPT ![t].pc = "store",
                                   ![t].ep = Cardinality(endpoints) + 1]
          ELSE /\ UNCHANGED endpoints
               /\ sc' = [sc EXCEPT ![t].pc = "idle", ![t].ret = "Err"]
    /\ UNCHANGED <<SERVICE_RUNNING, QUIC_ENDPOINT, cellSets, acceptLoops,
                   discoveries, nStarts, nSvcStops>>
    /\ UNCHANGED notSvc

\* the Ok arm: QUIC_ENDPOINT.set (its result is dropped) and start_server
SC_Store(t) ==
    /\ sc[t].pc = "store"
    /\ QUIC_ENDPOINT' = OnceCellSet(QUIC_ENDPOINT, sc[t].ep)
    /\ cellSets' = IF QUIC_ENDPOINT' # QUIC_ENDPOINT
                      THEN Append(cellSets, sc[t].ep) ELSE cellSets
    /\ acceptLoops' = acceptLoops \cup {sc[t].ep}
    /\ sc' = [sc EXCEPT ![t].pc = "flag"]
    /\ UNCHANGED <<SERVICE_RUNNING, endpoints, discoveries, nStarts, nSvcStops>>
    /\ UNCHANGED notSvc

\* *SERVICE_RUNNING.write() = true and the return of Ok
SC_Finish(t) ==
    /\ sc[t].pc = "flag"
    /\ SERVICE_RUNNING' = TRUE
    /\ sc' = [sc EXCEPT ![t].pc = "idle", ![t].ret = "Ok"]
    /\ UNCHANGED <<QUIC_ENDPOINT, cellSets, endpoints, acceptLoops, discoveries,
                   nStarts, nSvcStops>>
    /\ UNCHANGED notSvc

\* stop_service: the flag is cleared; the endpoint and the cell are kept
SC_Stop ==
    /\ nSvcStops < MaxSvcStops
    /\ nSvcStops' = nSvcStops + 1
    /\ SERVICE_RUNNING' = FALSE
    /\ UNCHANGED <<QUIC_ENDPOINT, cellSets, endpoints, acceptLoops, discoveries,
                   sc, nStarts>>
    /\ UNCHANGED notSvc

NextSvc ==
    \/ \E t \in Starters : SC_Check(t)
    \/ \E t \in Starters, ok \in BOOLEAN : SC_New(t, ok)
    \/ \E t \in Starters : SC_Store(t)
    \/ \E t \in Starters : SC_Finish(t)
    \/ SC_Stop

InitSvc == SvcOff /\ SharerOff /\ ViewerOff /\ InitNet /\ CodecOff /\ TimeOff /\ CloseOff /\ ScalerOff /\ EncoderOff /\ LanOff /\ RegOff /\ RenderOff /\ XferOff

SpecSvc == InitSvc /\ [][NextSvc]_vars

(***************************************************************************)
(* C36: in every interleaving of start_service calls at most one endpoint  *)
(* and one accept loop exist, the endpoint cell is given a value at most   *)
(* once and keeps it, and every call that found the service running        *)
(* returned Ok.                                                            *)
(***************************************************************************)
C36_StartServiceOnce ==
    /\ Cardinality(endpoints) <= 1
    /\ Cardinality(acceptLoops) <= 1
    /\ Len(cellSets) <= 1
    /\ (cellSets # <<>>) => QUIC_ENDPOINT = cellSets[1]
    /\ \A t \in Starters : sc[t].sawRunning => sc[t].ret = "Ok"

\* two calls both read the flag as false: one created the endpoint and
\* returned Ok, the other's bind failed; a third call found the service
\* running
C36_Witness ==
    \E t1, t2, t3 \in Starters :
        /\ ~sc[t1].sawRunning /\ sc[t1].ret = "Ok"
        /\ ~sc[t2].sawRunning /\ sc[t2].ret = "Err"
        /\ sc[t3].sawRunning /\ sc[t3].ret = "Ok"
        /\ discoveries = 2
        /\ QUIC_ENDPOINT = 1


(***************************************************************************)
(* The render window (renderer/window.rs): the handle's render_frame and   *)
(* close, and the render thread, which is the macOS render loop            *)
(* (create_macos) or the winit event loop with ControlFlow::Poll           *)
(* (create_winit, ApplicationHandler for RenderWindow).                    *)
(***************************************************************************)
\* index of the first Close in q, Len(q) + 1 when there is none
FirstCloseCmd(q) ==
    IF \E i \in 1..Len(q) : q[i] = "Close"
    THEN CHOOSE i \in 1..Len(q) :
            q[i] = "Close" /\ \A j \in 1..(i - 1) : q[j] # "Close"
    ELSE Len(q) + 1

\* RenderWindowHandle::render_frame: refused when is_open is false; the
\* send fails once the thread has dropped the receiver
RT_RenderFrame ==
    /\ nRF < MaxRenderCalls
    /\ nRF' = nRF + 1
    /\ IF rOpen /\ rpc # "exited"
          THEN /\ cmdq' = Append(cmdq, "RenderFrame")
               /\ rfRes' = "Ok"
          ELSE /\ UNCHANGED cmdq
               /\ rfRes' = "Err"
    /\ lateEnq' = (lateEnq \/ (~rOpen /\ cmdq' # cmdq))
    /\ UNCHANGED <<rplat, rOpen, rpc, closeCalled, nWinEv>>
    /\ UNCHANGED notRender

\* RenderWindowHandle::close: the Close command is sent, the result dropped
RT_Close ==
    /\ ~closeCalled
    /\ closeCalled' = TRUE
    /\ cmdq' = IF rpc # "exited" THEN Append(cmdq, "Close") ELSE cmdq
    /\ UNCHANGED <<rplat, rOpen, rpc, rfRes, lateEnq, nRF, nWinEv>>
    /\ UNCHANGED notRender

\* macOS loop, `if !is_open.load() { break; }` and the cleanup after it
RT_MacCheck ==
    /\ rplat = "macos"
    /\ rpc = "top"
    /\ rpc' = IF rOpen THEN "drain" ELSE "exited"
    /\ cmdq' = IF rOpen THEN cmdq ELSE <<>>
    /\ UNCHANGED <<rplat, rOpen, closeCalled, rfRes, lateEnq, nRF, nWinEv>>
    /\ UNCHANGED notRender

\* macOS loop, the rest of a turn: try_recv until the channel is empty or a
\* Close was read (is_open.store(false), break), upload, render, sleep
RT_MacDrain ==
    /\ rplat = "macos"
    /\ rpc = "drain"
    /\ \E n \in {FirstCloseCmd(cmdq)} :
          /\ cmdq' = SubSeq(cmdq, n + 1, Len(cmdq))
          /\ rOpen' = (rOpen /\ n > Len(cmdq))
    /\ rpc' = "top"
    /\ UNCHANGED <<rplat, closeCalled, rfRes, lateEnq, nRF, nWinEv>>
    /\ UNCHANGED notRender

\* macOS loop, the visibility check finds the window closed by the user
RT_MacUserClose ==
    /\ rplat = "macos"
    /\ rpc = "drain"
    /\ nWinEv < MaxWinEvents
    /\ nWinEv' = nWinEv + 1
    /\ rOpen' = FALSE
    /\ rpc' = "exited"
    /\ cmdq' = <<>>
    /\ UNCHANGED <<rplat, closeCalled, rfRes, lateEnq, nRF>>
    /\ UNCHANGED notRender

\* process_commands: every command of the channel is read; Close stores
\* false in is_open
process_commands(q, open) == open /\ FirstCloseCmd(q) > Len(q)

\* winit, about_to_wait: process_commands and nothing else
RT_AboutToWait ==
    /\ rplat = "winit"
    /\ rpc = "loop"
    /\ rOpen' = process_commands(cmdq, rOpen)
    /\ cmdq' = <<>>
    /\ UNCHANGED <<rplat, rpc, closeCalled, rfRes, lateEnq, nRF, nWinEv>>
    /\ UNCHANGED notRender

\* winit, window_event: CloseRequested stores false and exits the loop,
\* RedrawRequested runs process_commands, and after any event the loop
\* exits if is_open is false
RT_WindowEvent(kind) ==
    /\ rplat = "winit"
    /\ rpc = "loop"
    /\ nWinEv < MaxWinEvents
    /\ nWinEv' = nWinEv + 1
    /\ rOpen' = CASE kind = "CloseRequested" -> FALSE
                  [] kind = "RedrawRequested" -> process_commands(cmdq, rOpen)
                  [] OTHER -> rOpen
    /\ rpc' = IF rOpen' THEN "loop" ELSE "exited"
    /\ cmdq' = IF ~rOpen' \/ kind = "RedrawRequested" THEN <<>> ELSE cmdq
    /\ UNCHANGED <<rplat, closeCalled, rfRes, lateEnq, nRF>>
    /\ UNCHANGED notRender

WinEvents == {"CloseRequested", "RedrawRequested", "CursorMoved"}

NextRender ==
    \/ RT_RenderFrame
    \/ RT_Close
    \/ RT_MacCheck
    \/ RT_MacDrain
    \/ RT_MacUserClose
    \/ RT_AboutToWait
    \/ \E kind \in WinEvents : RT_WindowEvent(kind)

InitRender ==
    /\ rplat \in {"macos", "winit"}
    /\ rOpen = TRUE
    /\ cmdq = <<>>
    /\ rpc = IF rplat = "macos" THEN "top" ELSE "loop"
    /\ closeCalled = FALSE
    /\ rfRes = "none"
    /\ lateEnq = FALSE
    /\ nRF = 0
    /\ nWinEv = 0

InitRT == InitRender /\ SharerOff /\ ViewerOff /\ InitNet /\ CodecOff /\ TimeOff /\ CloseOff /\ ScalerOff /\ EncoderOff /\ LanOff /\ RegOff /\ SvcOff /\ XferOff

\* the render thread runs: its loop turns (macOS) and about_to_wait (winit
\* under ControlFlow::Poll) keep being taken; the handle's callers and the
\* window system owe nothing
FairRender ==
    /\ WF_vars(RT_MacCheck)
    /\ WF_vars(RT_MacDrain)
    /\ WF_vars(RT_AboutToWait)

SpecRender == InitRT /\ [][NextRender]_vars /\ FairRender

(***************************************************************************)
(* C37: after RenderWindowHandle::close() is_open eventually is false and  *)
(* the render thread has exited, with no window event or frame needed.     *)
(***************************************************************************)
C37_CloseEndsRenderThread == closeCalled ~> (~rOpen /\ rpc = "exited")

(***************************************************************************)
(* C38: after request_keyframe() the force_keyframe flag is set; the next  *)
(* encode() call, which finds the flag set, returns a KeyFrame and leaves  *)
(* the flag cleared; the flag is set by request_keyframe() only.           *)
(***************************************************************************)
C38_RequestGivesKeyframe ==
    /\ (elast.op = "request_keyframe") => force_keyframe
    /\ (elast.op = "encode") => ~force_keyframe
    /\ (elast.op = "encode" /\ elast.forced) => elast.res = "KeyFrame"

(***************************************************************************)
(* C39: a StreamFrame whose decode fails (Err, or no picture) does not end *)
(* the viewer's receive loop and does not close the render window: the     *)
(* step that handles it leaves the loop, the window and the decoder as     *)
(* they were, unless the same batch held the StreamStop.                   *)
(***************************************************************************)
\* this step handed a batch to the decoder and the batch's last frame was
\* not rendered: its decode gave no picture
DecodeFailed ==
    /\ Len(batches') = Len(batches) + 1
    /\ LET b == batches'[Len(batches')]
       IN  /\ b.run
           /\ b.frames # <<>>
           /\ b.frames[Len(b.frames)] \notin {vrendered'[i] : i \in 1..Len(vrendered')}

StopDrained ==
    /\ vpath = "drain"
    /\ wire # <<>>
    /\ Pending(wire)[Len(Pending(wire))].k = "Stop"

C39_DecodeErrorKeepsSession ==
    [][(DecodeFailed /\ ~StopDrained)
          => (vpc' = "recv" /\ window' = window /\ decoder' = decoder)]_vars

\* frame 1 was decoded without a picture, and frame 2 was received,
\* decoded and rendered after it in the same session
C39_Witness ==
    /\ vdecoded = <<1, 2>>
    /\ vrendered = <<2>>
    /\ Len(batches) = 2
    /\ \A n \in 1..2 : batches[n].run /\ Len(batches[n].frames) = 1
    /\ vpc = "recv"
    /\ window = "open"


(***************************************************************************)
(* One incoming transfer of the TransferManager (transfer/mod.rs) and the  *)
(* messages and commands that act on it (lib.rs, commands/mod.rs).  The    *)
(* file has NumChunks chunks of one byte value each; FileReceiver::new     *)
(* creates the destination with set_len, so unwritten chunks read as 0.    *)
(***************************************************************************)
ChunkBytes == {0, 1}
Files == [1..NumChunks -> ChunkBytes]

\* calculate_file_checksum: a digest of the content, one value per content
RECURSIVE calculate_file_checksum(_)
calculate_file_checksum(f) ==
    IF f = <<>> THEN 1
    ELSE 2 * calculate_file_checksum(Tail(f)) + Head(f)

\* FileReceiver::is_complete
is_complete(r) == \A i \in 1..NumChunks : r.received_chunks[i]

\* FileReceiver::finalize: Ok iff the digest of the destination file is the
\* one of the offer
finalize(r) == calculate_file_checksum(r.file) = calculate_file_checksum(xinfo)

\* receive_offer, on a FileOffer message: the transfer is inserted as Offered
X_Offer ==
    /\ xstatus = "none"
    /\ xstatus' = "Offered"
    /\ UNCHANGED <<xinfo, xrecv, xdone>>
    /\ UNCHANGED notXfer

\* accept_transfer of a known transfer, whatever its status
X_Accept ==
    /\ xstatus # "none"
    /\ xstatus' = "InProgress"
    /\ xrecv' = << [file |-> [i \in 1..NumChunks |-> 0],
                    received_chunks |-> [i \in 1..NumChunks |-> FALSE]] >>
    /\ UNCHANGED <<xinfo, xdone>>
    /\ UNCHANGED notXfer

\* reject_transfer of a known transfer
X_Reject ==
    /\ xstatus # "none"
    /\ xstatus' = "Cancelled"
    /\ UNCHANGED <<xinfo, xrecv, xdone>>
    /\ UNCHANGED notXfer

\* write_chunk, on a FileChunk message, when a receiver exists; the data
\* is whatever the peer sent
X_Chunk(i, byte) ==
    /\ xrecv # <<>>
    /\ xrecv' = << [file |-> [xrecv[1].file EXCEPT ![i] = byte],
                    received_chunks |->
                        [xrecv[1].received_chunks EXCEPT ![i] = TRUE]] >>
    /\ UNCHANGED <<xinfo, xstatus, xdone>>
    /\ UNCHANGED notXfer

\* complete_transfer, on a FileComplete message: finalize if there is a
\* receiver (an Err returns), then complete() on the transfer if there is
\* one, then the receiver is removed
X_Complete ==
    /\ (xrecv # <<>>) => finalize(xrecv[1])
    /\ xstatus' = IF xstatus = "none" THEN "none" ELSE "Completed"
    /\ xdone' = IF xstatus = "none" THEN xdone
                ELSE [status |-> xstatus, receiver |-> xrecv # <<>>,
                      is_complete |-> (xrecv # <<>> /\ is_complete(xrecv[1])),
                      verified |-> (xrecv # <<>> /\ finalize(xrecv[1]))]
    /\ xrecv' = <<>>
    /\ UNCHANGED xinfo
    /\ UNCHANGED notXfer

\* complete_transfer returning Err(ChecksumMismatch): nothing is changed
X_CompleteFails ==
    /\ xrecv # <<>>
    /\ ~finalize(xrecv[1])
    /\ UNCHANGED <<xinfo, xstatus, xrecv, xdone>>
    /\ UNCHANGED notXfer

\* cancel_transfer, on a FileCancel message or the cancel command
X_Cancel ==
    /\ xstatus' = IF xstatus = "none" THEN "none" ELSE "Cancelled"
    /\ xrecv' = <<>>
    /\ UNCHANGED <<xinfo, xdone>>
    /\ UNCHANGED notXfer

NextXfer ==
    \/ X_Offer
    \/ X_Accept
    \/ X_Reject
    \/ \E i \in 1..NumChunks, byte \in ChunkBytes : X_Chunk(i, byte)
    \/ X_Complete
    \/ X_CompleteFails
    \/ X_Cancel

InitXfer ==
    /\ xinfo \in Files
    /\ xstatus = "none"
    /\ xrecv = <<>>
    /\ xdone = NotDone

InitX == InitXfer /\ SharerOff /\ ViewerOff /\ InitNet /\ CodecOff /\ TimeOff /\ CloseOff /\ ScalerOff /\ EncoderOff /\ LanOff /\ RegOff /\ SvcOff /\ RenderOff

SpecXfer == InitX /\ [][NextXfer]_vars

(***************************************************************************)
(* C40: an incoming transfer has status Completed only if the             *)
(* complete_transfer that set it found the transfer accepted and in        *)
(* progress, every chunk written, and the SHA-256 of the file equal to the *)
(* offered one.                                                            *)
(***************************************************************************)
C40_CompletedOnlyWhenVerified ==
    (xstatus = "Completed") =>
        /\ xdone.status = "InProgress"
        /\ xdone.receiver
        /\ xdone.is_complete
        /\ xdone.verified

=============================================================================
